---- MODULE Spec2Model ----
(***************************************************************************)
(* Gemini mock server (GeminiMockServer, Express application).            *)
(*                                                                         *)
(* Texts are sequences of one-character strings, so that split, join,      *)
(* trim, includes, substring and length are computed on characters as      *)
(* the JavaScript string methods compute them.  The event loop is a set    *)
(* of pending timers and a clock in milliseconds; a callback runs to       *)
(* completion as one step.                                                 *)
(***************************************************************************)
EXTENDS Integers, Sequences, FiniteSets, TLC

\* ------------------------------------------------------------------ bounds

\* Requests the clients send during one run.
MaxRequests == 2

\* Largest generationConfig.maxOutputTokens a request of the model carries.
MaxTokens == 6

\* Chat responses the chat test script processes during one run.
MaxResponses == 4

\* Update checks (each by a fresh APIUpdateChecker) during one run.
MaxChecks == 2

\* JSON files in the collections directory of one validation run.
MaxFiles == 2

\* Server processes the MockServerManager spawns during one run.
MaxSpawns == 3

\* ------------------------------------------------------- program constants

\* if (daysSinceUpdate > 30)
MaintenanceDays == 30

\* if (history.length > 20) history = history.slice(-20)
HistoryLimit == 20

\* setTimeout(..., index * 100)
WordDelayMs == 100

\* Math.random() * 1000 + 500
LatencySpanMs == 1000

LatencyBaseMs == 500

\* rateLimit({ max: 60 })
RateLimitMax == 60

\* rateLimit({ windowMs: 60 * 1000 })
RateWindowMs == 60000

\* userText.substring(0, 50)
EchoLimit == 50

\* ----------------------------------------------------------------- strings

SPACE == " "

\* The line feed character (JavaScript "\n").
NL == "\n"

\* The backslash character (JavaScript "\\").
BS == "\\"

QUOTE == "\""

\* Characters String.prototype.trim removes.
WhiteSpace == {SPACE, NL, "\t", "\r"}

UpperCase ==
  <<"A", "B", "C", "D", "E", "F", "G", "H", "I", "J", "K", "L", "M",
    "N", "O", "P", "Q", "R", "S", "T", "U", "V", "W", "X", "Y", "Z">>

LowerCase ==
  <<"a", "b", "c", "d", "e", "f", "g", "h", "i", "j", "k", "l", "m",
    "n", "o", "p", "q", "r", "s", "t", "u", "v", "w", "x", "y", "z">>

ToLowerChar(c) ==
  IF \E i \in 1..Len(UpperCase) : UpperCase[i] = c
    THEN LowerCase[CHOOSE i \in 1..Len(UpperCase) : UpperCase[i] = c]
    ELSE c

\* String.prototype.toLowerCase
ToLowerCase(s) == [i \in 1..Len(s) |-> ToLowerChar(s[i])]

\* String.prototype.includes
Includes(s, k) ==
  \E i \in 1..(Len(s) - Len(k) + 1) : SubSeq(s, i, i + Len(k) - 1) = k

\* String.prototype.substring(0, n)
Substring0(s, n) == SubSeq(s, 1, IF Len(s) < n THEN Len(s) ELSE n)

\* String.prototype.split(' '): one more element than there are spaces, so
\* the empty string splits into one empty word.  The string is halved and
\* the halves' words are merged: the last word of the left half continues
\* in the first word of the right half.
RECURSIVE Split(_)
Split(s) ==
  IF Len(s) = 0 THEN << <<>> >>
  ELSE IF Len(s) = 1 THEN (IF s[1] = SPACE THEN << <<>>, <<>> >> ELSE <<s>>)
  ELSE LET half == Len(s) \div 2
           left == Split(SubSeq(s, 1, half))
           right == Split(SubSeq(s, half + 1, Len(s)))
       IN  SubSeq(left, 1, Len(left) - 1)
           \o <<left[Len(left)] \o right[1]>>
           \o SubSeq(right, 2, Len(right))

\* Array.prototype.join(' ')
RECURSIVE Join(_)
Join(ws) ==
  IF Len(ws) = 0 THEN <<>>
  ELSE IF Len(ws) = 1 THEN ws[1]
  ELSE LET half == Len(ws) \div 2
       IN  Join(SubSeq(ws, 1, half)) \o <<SPACE>> \o Join(SubSeq(ws, half + 1, Len(ws)))

\* Array.prototype.slice(0, n)
Slice0(ws, n) == SubSeq(ws, 1, IF Len(ws) < n THEN Len(ws) ELSE n)

\* String.prototype.trim
Trim(s) ==
  LET keep == {i \in 1..Len(s) : s[i] \notin WhiteSpace}
  IN  IF keep = {} THEN <<>>
      ELSE SubSeq(s, CHOOSE i \in keep : \A j \in keep : i <= j,
                     CHOOSE i \in keep : \A j \in keep : j <= i)

\* Decimal digits of a natural number, as Number.prototype.toString gives.
DigitChars == <<"0", "1", "2", "3", "4", "5", "6", "7", "8", "9">>

RECURSIVE Digits(_)
Digits(n) ==
  IF n < 10 THEN <<DigitChars[n + 1]>>
  ELSE Append(Digits(n \div 10), DigitChars[(n % 10) + 1])

\* p is a prefix of s
IsPrefix(p, s) == Len(p) <= Len(s) /\ SubSeq(s, 1, Len(p)) = p

\* ------------------------------------------- string literals of the source

JsonNull ==
  <<"n", "u", "l", "l">>

JsonPartsKey ==
  <<"\"", "p", "a", "r", "t", "s", "\"", ":">>

JsonTextKey ==
  <<"\"", "t", "e", "x", "t", "\"", ":">>

JsonInlineData ==
  <<"\"", "i", "n", "l", "i", "n", "e", "_", "d", "a", "t", "a", "\"", ":", "{", "\"",
     "m", "i", "m", "e", "_", "t", "y", "p", "e", "\"", ":", "\"", "i", "m", "a", "g",
     "e", "/", "p", "n", "g", "\"", ",", "\"", "d", "a", "t", "a", "\"", ":", "\"", "i",
     "V", "B", "O", "R", "w", "0", "K", "G", "g", "o", "=", "\"", "}">>

JsonFileData ==
  <<"\"", "f", "i", "l", "e", "_", "d", "a", "t", "a", "\"", ":", "{", "\"", "m", "i",
     "m", "e", "_", "t", "y", "p", "e", "\"", ":", "\"", "i", "m", "a", "g", "e", "/",
     "p", "n", "g", "\"", ",", "\"", "f", "i", "l", "e", "_", "u", "r", "i", "\"", ":",
     "\"", "f", "i", "l", "e", "s", "/", "a", "b", "c", "\"", "}">>

Ellipsis ==
  <<".", ".", ".">>

KwHaiku ==
  <<"h", "a", "i", "k", "u">>

KwCode ==
  <<"c", "o", "d", "e">>

KwFunction ==
  <<"f", "u", "n", "c", "t", "i", "o", "n">>

KwPython ==
  <<"p", "y", "t", "h", "o", "n">>

KwJavascript ==
  <<"j", "a", "v", "a", "s", "c", "r", "i", "p", "t">>

KwError ==
  <<"e", "r", "r", "o", "r">>

KwDebug ==
  <<"d", "e", "b", "u", "g">>

KwFix ==
  <<"f", "i", "x">>

KwExplain ==
  <<"e", "x", "p", "l", "a", "i", "n">>

KwWhatIs ==
  <<"w", "h", "a", "t", " ", "i", "s">>

KwHowTo ==
  <<"h", "o", "w", " ", "t", "o">>

KwTest ==
  <<"t", "e", "s", "t">>

KwTesting ==
  <<"t", "e", "s", "t", "i", "n", "g">>

ModelPro ==
  <<"g", "e", "m", "i", "n", "i", "-", "1", ".", "5", "-", "p", "r", "o">>

ModelFlash ==
  <<"g", "e", "m", "i", "n", "i", "-", "1", ".", "5", "-", "f", "l", "a", "s", "h">>

\* part_000:254 (70 characters)
HaikuText ==
  <<"A", "P", "I", "s", " ", "t", "e", "s", "t", "e", "d", " ", "w", "e", "l", "l",
     ",", "\\", "n", "R", "e", "s", "p", "o", "n", "s", "e", "s", " ", "f", "l", "o",
     "w", " ", "l", "i", "k", "e", " ", "d", "a", "t", "a", " ", "s", "t", "r", "e",
     "a", "m", "s", ",", "\\", "n", "C", "o", "d", "e", " ", "i", "n", " ", "h", "a",
     "r", "m", "o", "n", "y", ".">>

\* part_000:270 (202 characters)
TestingText ==
  <<"T", "e", "s", "t", "i", "n", "g", " ", "i", "s", " ", "c", "r", "u", "c", "i",
     "a", "l", " ", "f", "o", "r", " ", "r", "e", "l", "i", "a", "b", "l", "e", " ",
     "s", "o", "f", "t", "w", "a", "r", "e", ".", " ", "I", " ", "r", "e", "c", "o",
     "m", "m", "e", "n", "d", " ", "i", "m", "p", "l", "e", "m", "e", "n", "t", "i",
     "n", "g", " ", "u", "n", "i", "t", " ", "t", "e", "s", "t", "s", ",", " ", "i",
     "n", "t", "e", "g", "r", "a", "t", "i", "o", "n", " ", "t", "e", "s", "t", "s",
     ",", " ", "a", "n", "d", " ", "e", "n", "d", "-", "t", "o", "-", "e", "n", "d",
     " ", "t", "e", "s", "t", "s", ".", " ", "M", "o", "c", "k", " ", "s", "e", "r",
     "v", "e", "r", "s", " ", "l", "i", "k", "e", " ", "t", "h", "i", "s", " ", "o",
     "n", "e", " ", "h", "e", "l", "p", " ", "s", "i", "m", "u", "l", "a", "t", "e",
     " ", "e", "x", "t", "e", "r", "n", "a", "l", " ", "d", "e", "p", "e", "n", "d",
     "e", "n", "c", "i", "e", "s", " ", "d", "u", "r", "i", "n", "g", " ", "d", "e",
     "v", "e", "l", "o", "p", "m", "e", "n", "t", ".">>

\* part_000:279 (185 characters)
ImageText0 ==
  <<"I", " ", "c", "a", "n", " ", "s", "e", "e", " ", "t", "h", "i", "s", " ", "i",
     "s", " ", "a", "n", " ", "i", "m", "a", "g", "e", ".", " ", "B", "a", "s", "e",
     "d", " ", "o", "n", " ", "t", "h", "e", " ", "v", "i", "s", "u", "a", "l", " ",
     "c", "o", "n", "t", "e", "n", "t", ",", " ", "I", " ", "n", "o", "t", "i", "c",
     "e", " ", "v", "a", "r", "i", "o", "u", "s", " ", "e", "l", "e", "m", "e", "n",
     "t", "s", " ", "i", "n", "c", "l", "u", "d", "i", "n", "g", " ", "c", "o", "l",
     "o", "r", "s", ",", " ", "s", "h", "a", "p", "e", "s", ",", " ", "a", "n", "d",
     " ", "o", "b", "j", "e", "c", "t", "s", ".", " ", "T", "h", "e", " ", "c", "o",
     "m", "p", "o", "s", "i", "t", "i", "o", "n", " ", "a", "p", "p", "e", "a", "r",
     "s", " ", "t", "o", " ", "b", "e", " ", "w", "e", "l", "l", "-", "b", "a", "l",
     "a", "n", "c", "e", "d", " ", "w", "i", "t", "h", " ", "g", "o", "o", "d", " ",
     "c", "o", "n", "t", "r", "a", "s", "t", ".">>

\* part_000:280 (187 characters)
ImageText1 ==
  <<"T", "h", "i", "s", " ", "i", "m", "a", "g", "e", " ", "c", "o", "n", "t", "a",
     "i", "n", "s", " ", "m", "u", "l", "t", "i", "p", "l", "e", " ", "v", "i", "s",
     "u", "a", "l", " ", "e", "l", "e", "m", "e", "n", "t", "s", ".", " ", "I", " ",
     "c", "a", "n", " ", "i", "d", "e", "n", "t", "i", "f", "y", " ", "d", "i", "f",
     "f", "e", "r", "e", "n", "t", " ", "c", "o", "l", "o", "r", "s", " ", "a", "n",
     "d", " ", "t", "e", "x", "t", "u", "r", "e", "s", " ", "t", "h", "r", "o", "u",
     "g", "h", "o", "u", "t", " ", "t", "h", "e", " ", "c", "o", "m", "p", "o", "s",
     "i", "t", "i", "o", "n", ".", " ", "T", "h", "e", " ", "l", "i", "g", "h", "t",
     "i", "n", "g", " ", "a", "n", "d", " ", "p", "e", "r", "s", "p", "e", "c", "t",
     "i", "v", "e", " ", "c", "r", "e", "a", "t", "e", " ", "a", "n", " ", "i", "n",
     "t", "e", "r", "e", "s", "t", "i", "n", "g", " ", "v", "i", "s", "u", "a", "l",
     " ", "n", "a", "r", "r", "a", "t", "i", "v", "e", ".">>

\* part_000:281 (186 characters)
ImageText2 ==
  <<"L", "o", "o", "k", "i", "n", "g", " ", "a", "t", " ", "t", "h", "i", "s", " ",
     "i", "m", "a", "g", "e", ",", " ", "I", " ", "o", "b", "s", "e", "r", "v", "e",
     " ", "s", "e", "v", "e", "r", "a", "l", " ", "k", "e", "y", " ", "f", "e", "a",
     "t", "u", "r", "e", "s", " ", "i", "n", "c", "l", "u", "d", "i", "n", "g", " ",
     "t", "h", "e", " ", "m", "a", "i", "n", " ", "s", "u", "b", "j", "e", "c", "t",
     " ", "m", "a", "t", "t", "e", "r", ",", " ", "b", "a", "c", "k", "g", "r", "o",
     "u", "n", "d", " ", "e", "l", "e", "m", "e", "n", "t", "s", ",", " ", "a", "n",
     "d", " ", "o", "v", "e", "r", "a", "l", "l", " ", "v", "i", "s", "u", "a", "l",
     " ", "s", "t", "y", "l", "e", ".", " ", "T", "h", "e", " ", "i", "m", "a", "g",
     "e", " ", "q", "u", "a", "l", "i", "t", "y", " ", "a", "p", "p", "e", "a", "r",
     "s", " ", "c", "l", "e", "a", "r", " ", "a", "n", "d", " ", "w", "e", "l", "l",
     "-", "c", "o", "m", "p", "o", "s", "e", "d", ".">>

\* part_000:288 (315 characters)
PythonTemplate ==
  <<"d", "e", "f", " ", "e", "x", "a", "m", "p", "l", "e", "_", "f", "u", "n", "c",
     "t", "i", "o", "n", "(", "d", "a", "t", "a", ")", ":", "\n", " ", " ", " ", " ",
     "\"", "\"", "\"", "\n", " ", " ", " ", " ", "E", "x", "a", "m", "p", "l", "e", " ",
     "P", "y", "t", "h", "o", "n", " ", "f", "u", "n", "c", "t", "i", "o", "n", " ",
     "b", "a", "s", "e", "d", " ", "o", "n", " ", "y", "o", "u", "r", " ", "r", "e",
     "q", "u", "e", "s", "t", ".", "\n", " ", " ", " ", " ", "\"", "\"", "\"", "\n", " ",
     " ", " ", " ", "t", "r", "y", ":", "\n", " ", " ", " ", " ", " ", " ", " ", " ",
     "r", "e", "s", "u", "l", "t", " ", "=", " ", "p", "r", "o", "c", "e", "s", "s",
     "_", "d", "a", "t", "a", "(", "d", "a", "t", "a", ")", "\n", " ", " ", " ", " ",
     " ", " ", " ", " ", "r", "e", "t", "u", "r", "n", " ", "r", "e", "s", "u", "l",
     "t", "\n", " ", " ", " ", " ", "e", "x", "c", "e", "p", "t", " ", "E", "x", "c",
     "e", "p", "t", "i", "o", "n", " ", "a", "s", " ", "e", ":", "\n", " ", " ", " ",
     " ", " ", " ", " ", " ", "l", "o", "g", "g", "i", "n", "g", ".", "e", "r", "r",
     "o", "r", "(", "f", "\"", "E", "r", "r", "o", "r", " ", "p", "r", "o", "c", "e",
     "s", "s", "i", "n", "g", " ", "d", "a", "t", "a", ":", " ", "{", "e", "}", "\"",
     ")", "\n", " ", " ", " ", " ", " ", " ", " ", " ", "r", "e", "t", "u", "r", "n",
     " ", "N", "o", "n", "e", "\n", "\n", "#", " ", "U", "s", "a", "g", "e", " ", "e",
     "x", "a", "m", "p", "l", "e", "\n", "r", "e", "s", "u", "l", "t", " ", "=", " ",
     "e", "x", "a", "m", "p", "l", "e", "_", "f", "u", "n", "c", "t", "i", "o", "n",
     "(", "y", "o", "u", "r", "_", "d", "a", "t", "a", ")">>

\* part_000:292 (320 characters)
JavaScriptTemplate ==
  <<"f", "u", "n", "c", "t", "i", "o", "n", " ", "e", "x", "a", "m", "p", "l", "e",
     "F", "u", "n", "c", "t", "i", "o", "n", "(", "d", "a", "t", "a", ")", " ", "{",
     "\n", " ", " ", "/", "*", "*", "\n", " ", " ", " ", "*", " ", "E", "x", "a", "m",
     "p", "l", "e", " ", "J", "a", "v", "a", "S", "c", "r", "i", "p", "t", " ", "f",
     "u", "n", "c", "t", "i", "o", "n", " ", "b", "a", "s", "e", "d", " ", "o", "n",
     " ", "y", "o", "u", "r", " ", "r", "e", "q", "u", "e", "s", "t", ".", "\n", " ",
     " ", " ", "*", "/", "\n", " ", " ", "t", "r", "y", " ", "{", "\n", " ", " ", " ",
     " ", "c", "o", "n", "s", "t", " ", "r", "e", "s", "u", "l", "t", " ", "=", " ",
     "p", "r", "o", "c", "e", "s", "s", "D", "a", "t", "a", "(", "d", "a", "t", "a",
     ")", ";", "\n", " ", " ", " ", " ", "r", "e", "t", "u", "r", "n", " ", "r", "e",
     "s", "u", "l", "t", ";", "\n", " ", " ", "}", " ", "c", "a", "t", "c", "h", " ",
     "(", "e", "r", "r", "o", "r", ")", " ", "{", "\n", " ", " ", " ", " ", "c", "o",
     "n", "s", "o", "l", "e", ".", "e", "r", "r", "o", "r", "(", "'", "E", "r", "r",
     "o", "r", " ", "p", "r", "o", "c", "e", "s", "s", "i", "n", "g", " ", "d", "a",
     "t", "a", ":", "'", ",", " ", "e", "r", "r", "o", "r", ")", ";", "\n", " ", " ",
     " ", " ", "r", "e", "t", "u", "r", "n", " ", "n", "u", "l", "l", ";", "\n", " ",
     " ", "}", "\n", "}", "\n", "\n", "/", "/", " ", "U", "s", "a", "g", "e", " ", "e",
     "x", "a", "m", "p", "l", "e", "\n", "c", "o", "n", "s", "t", " ", "r", "e", "s",
     "u", "l", "t", " ", "=", " ", "e", "x", "a", "m", "p", "l", "e", "F", "u", "n",
     "c", "t", "i", "o", "n", "(", "y", "o", "u", "r", "D", "a", "t", "a", ")", ";">>

\* part_000:295 (204 characters)
GenericCodeText ==
  <<"H", "e", "r", "e", "'", "s", " ", "a", " ", "c", "o", "d", "e", " ", "s", "o",
     "l", "u", "t", "i", "o", "n", " ", "b", "a", "s", "e", "d", " ", "o", "n", " ",
     "y", "o", "u", "r", " ", "r", "e", "q", "u", "e", "s", "t", ".", " ", "T", "h",
     "e", " ", "i", "m", "p", "l", "e", "m", "e", "n", "t", "a", "t", "i", "o", "n",
     " ", "f", "o", "l", "l", "o", "w", "s", " ", "b", "e", "s", "t", " ", "p", "r",
     "a", "c", "t", "i", "c", "e", "s", " ", "i", "n", "c", "l", "u", "d", "i", "n",
     "g", " ", "e", "r", "r", "o", "r", " ", "h", "a", "n", "d", "l", "i", "n", "g",
     ",", " ", "p", "r", "o", "p", "e", "r", " ", "d", "o", "c", "u", "m", "e", "n",
     "t", "a", "t", "i", "o", "n", ",", " ", "a", "n", "d", " ", "c", "l", "e", "a",
     "n", " ", "s", "t", "r", "u", "c", "t", "u", "r", "e", ".", " ", "W", "o", "u",
     "l", "d", " ", "y", "o", "u", " ", "l", "i", "k", "e", " ", "m", "e", " ", "t",
     "o", " ", "e", "x", "p", "l", "a", "i", "n", " ", "a", "n", "y", " ", "s", "p",
     "e", "c", "i", "f", "i", "c", " ", "p", "a", "r", "t", "?">>

\* part_000:299 (444 characters)
DebugText ==
  <<"B", "a", "s", "e", "d", " ", "o", "n", " ", "t", "h", "e", " ", "e", "r", "r",
     "o", "r", " ", "y", "o", "u", "'", "r", "e", " ", "e", "x", "p", "e", "r", "i",
     "e", "n", "c", "i", "n", "g", ",", " ", "h", "e", "r", "e", " ", "a", "r", "e",
     " ", "t", "h", "e", " ", "m", "o", "s", "t", " ", "l", "i", "k", "e", "l", "y",
     " ", "c", "a", "u", "s", "e", "s", ":", "\\", "n", "\\", "n", "1", ".", " ", "*",
     "*", "N", "u", "l", "l", "/", "u", "n", "d", "e", "f", "i", "n", "e", "d", " ",
     "v", "a", "l", "u", "e", "s", "*", "*", ":", " ", "C", "h", "e", "c", "k", " ",
     "i", "f", " ", "v", "a", "r", "i", "a", "b", "l", "e", "s", " ", "a", "r", "e",
     " ", "p", "r", "o", "p", "e", "r", "l", "y", " ", "i", "n", "i", "t", "i", "a",
     "l", "i", "z", "e", "d", "\\", "n", "2", ".", " ", "*", "*", "T", "y", "p", "e",
     " ", "m", "i", "s", "m", "a", "t", "c", "h", "e", "s", "*", "*", ":", " ", "V",
     "e", "r", "i", "f", "y", " ", "d", "a", "t", "a", " ", "t", "y", "p", "e", "s",
     " ", "m", "a", "t", "c", "h", " ", "e", "x", "p", "e", "c", "t", "e", "d", " ",
     "v", "a", "l", "u", "e", "s", "\\", "n", "3", ".", " ", "*", "*", "S", "c", "o",
     "p", "e", " ", "i", "s", "s", "u", "e", "s", "*", "*", ":", " ", "E", "n", "s",
     "u", "r", "e", " ", "v", "a", "r", "i", "a", "b", "l", "e", "s", " ", "a", "r",
     "e", " ", "a", "c", "c", "e", "s", "s", "i", "b", "l", "e", " ", "w", "h", "e",
     "r", "e", " ", "n", "e", "e", "d", "e", "d", "\\", "n", "4", ".", " ", "*", "*",
     "A", "s", "y", "n", "c", "/", "a", "w", "a", "i", "t", " ", "p", "r", "o", "b",
     "l", "e", "m", "s", "*", "*", ":", " ", "C", "h", "e", "c", "k", " ", "i", "f",
     " ", "p", "r", "o", "m", "i", "s", "e", "s", " ", "a", "r", "e", " ", "p", "r",
     "o", "p", "e", "r", "l", "y", " ", "h", "a", "n", "d", "l", "e", "d", "\\", "n",
     "\\", "n", "I", " ", "r", "e", "c", "o", "m", "m", "e", "n", "d", " ", "a", "d",
     "d", "i", "n", "g", " ", "c", "o", "n", "s", "o", "l", "e", ".", "l", "o", "g",
     " ", "s", "t", "a", "t", "e", "m", "e", "n", "t", "s", " ", "o", "r", " ", "u",
     "s", "i", "n", "g", " ", "a", " ", "d", "e", "b", "u", "g", "g", "e", "r", " ",
     "t", "o", " ", "t", "r", "a", "c", "e", " ", "t", "h", "e", " ", "e", "x", "e",
     "c", "u", "t", "i", "o", "n", " ", "f", "l", "o", "w", ".">>

\* part_000:303 (293 characters)
ExplanationText ==
  <<"L", "e", "t", " ", "m", "e", " ", "e", "x", "p", "l", "a", "i", "n", " ", "t",
     "h", "i", "s", " ", "c", "o", "n", "c", "e", "p", "t", " ", "c", "l", "e", "a",
     "r", "l", "y", ":", "\\", "n", "\\", "n", "T", "h", "e", " ", "t", "o", "p", "i",
     "c", " ", "y", "o", "u", "'", "r", "e", " ", "a", "s", "k", "i", "n", "g", " ",
     "a", "b", "o", "u", "t", " ", "i", "n", "v", "o", "l", "v", "e", "s", " ", "s",
     "e", "v", "e", "r", "a", "l", " ", "k", "e", "y", " ", "c", "o", "m", "p", "o",
     "n", "e", "n", "t", "s", " ", "t", "h", "a", "t", " ", "w", "o", "r", "k", " ",
     "t", "o", "g", "e", "t", "h", "e", "r", ".", " ", "E", "a", "c", "h", " ", "p",
     "a", "r", "t", " ", "h", "a", "s", " ", "a", " ", "s", "p", "e", "c", "i", "f",
     "i", "c", " ", "r", "o", "l", "e", " ", "a", "n", "d", " ", "u", "n", "d", "e",
     "r", "s", "t", "a", "n", "d", "i", "n", "g", " ", "t", "h", "e", "i", "r", " ",
     "i", "n", "t", "e", "r", "a", "c", "t", "i", "o", "n", "s", " ", "i", "s", " ",
     "c", "r", "u", "c", "i", "a", "l", " ", "f", "o", "r", " ", "p", "r", "a", "c",
     "t", "i", "c", "a", "l", " ", "i", "m", "p", "l", "e", "m", "e", "n", "t", "a",
     "t", "i", "o", "n", ".", "\\", "n", "\\", "n", "W", "o", "u", "l", "d", " ", "y",
     "o", "u", " ", "l", "i", "k", "e", " ", "m", "e", " ", "t", "o", " ", "d", "i",
     "v", "e", " ", "d", "e", "e", "p", "e", "r", " ", "i", "n", "t", "o", " ", "a",
     "n", "y", " ", "p", "a", "r", "t", "i", "c", "u", "l", "a", "r", " ", "a", "s",
     "p", "e", "c", "t", "?">>

\* part_000:308 (128 characters)
DefaultLeadIn0 ==
  <<"T", "h", "a", "t", "'", "s", " ", "a", "n", " ", "i", "n", "t", "e", "r", "e",
     "s", "t", "i", "n", "g", " ", "q", "u", "e", "s", "t", "i", "o", "n", "!", " ",
     "L", "e", "t", " ", "m", "e", " ", "p", "r", "o", "v", "i", "d", "e", " ", "y",
     "o", "u", " ", "w", "i", "t", "h", " ", "a", " ", "c", "o", "m", "p", "r", "e",
     "h", "e", "n", "s", "i", "v", "e", " ", "r", "e", "s", "p", "o", "n", "s", "e",
     " ", "t", "h", "a", "t", " ", "a", "d", "d", "r", "e", "s", "s", "e", "s", " ",
     "y", "o", "u", "r", " ", "s", "p", "e", "c", "i", "f", "i", "c", " ", "n", "e",
     "e", "d", "s", " ", "a", "n", "d", " ", "c", "o", "n", "t", "e", "x", "t", ".">>

\* part_000:309 (116 characters)
DefaultLeadIn1 ==
  <<"I", " ", "u", "n", "d", "e", "r", "s", "t", "a", "n", "d", " ", "w", "h", "a",
     "t", " ", "y", "o", "u", "'", "r", "e", " ", "l", "o", "o", "k", "i", "n", "g",
     " ", "f", "o", "r", ".", " ", "B", "a", "s", "e", "d", " ", "o", "n", " ", "y",
     "o", "u", "r", " ", "r", "e", "q", "u", "e", "s", "t", ",", " ", "I", " ", "c",
     "a", "n", " ", "o", "f", "f", "e", "r", " ", "s", "e", "v", "e", "r", "a", "l",
     " ", "i", "n", "s", "i", "g", "h", "t", "s", " ", "a", "n", "d", " ", "p", "r",
     "a", "c", "t", "i", "c", "a", "l", " ", "s", "u", "g", "g", "e", "s", "t", "i",
     "o", "n", "s", ".">>

\* part_000:310 (114 characters)
DefaultLeadIn2 ==
  <<"T", "h", "a", "n", "k", " ", "y", "o", "u", " ", "f", "o", "r", " ", "y", "o",
     "u", "r", " ", "q", "u", "e", "s", "t", "i", "o", "n", ".", " ", "I", "'", "l",
     "l", " ", "b", "r", "e", "a", "k", " ", "t", "h", "i", "s", " ", "d", "o", "w",
     "n", " ", "i", "n", "t", "o", " ", "c", "l", "e", "a", "r", ",", " ", "a", "c",
     "t", "i", "o", "n", "a", "b", "l", "e", " ", "i", "n", "f", "o", "r", "m", "a",
     "t", "i", "o", "n", " ", "t", "h", "a", "t", " ", "y", "o", "u", " ", "c", "a",
     "n", " ", "u", "s", "e", " ", "i", "m", "m", "e", "d", "i", "a", "t", "e", "l",
     "y", ".">>

\* part_000:311 (113 characters)
DefaultLeadIn3 ==
  <<"T", "h", "i", "s", " ", "i", "s", " ", "a", " ", "g", "r", "e", "a", "t", " ",
     "t", "o", "p", "i", "c", " ", "t", "o", " ", "e", "x", "p", "l", "o", "r", "e",
     ".", " ", "L", "e", "t", " ", "m", "e", " ", "s", "h", "a", "r", "e", " ", "s",
     "o", "m", "e", " ", "d", "e", "t", "a", "i", "l", "e", "d", " ", "i", "n", "f",
     "o", "r", "m", "a", "t", "i", "o", "n", " ", "a", "n", "d", " ", "b", "e", "s",
     "t", " ", "p", "r", "a", "c", "t", "i", "c", "e", "s", " ", "t", "h", "a", "t",
     " ", "w", "i", "l", "l", " ", "b", "e", " ", "h", "e", "l", "p", "f", "u", "l",
     ".">>

\* part_000:313 (19 characters)
DefaultQueryOpen ==
  <<" ", "Y", "o", "u", "r", " ", "q", "u", "e", "r", "y", " ", "a", "b", "o", "u",
     "t", " ", "\"">>

\* part_000:313 (123 characters)
DefaultQueryClose ==
  <<"\"", " ", "r", "e", "q", "u", "i", "r", "e", "s", " ", "a", " ", "t", "h", "o",
     "u", "g", "h", "t", "f", "u", "l", " ", "a", "p", "p", "r", "o", "a", "c", "h",
     ".", " ", "I", " ", "r", "e", "c", "o", "m", "m", "e", "n", "d", " ", "c", "o",
     "n", "s", "i", "d", "e", "r", "i", "n", "g", " ", "m", "u", "l", "t", "i", "p",
     "l", "e", " ", "p", "e", "r", "s", "p", "e", "c", "t", "i", "v", "e", "s", " ",
     "a", "n", "d", " ", "g", "a", "t", "h", "e", "r", "i", "n", "g", " ", "a", "d",
     "d", "i", "t", "i", "o", "n", "a", "l", " ", "c", "o", "n", "t", "e", "x", "t",
     " ", "a", "s", " ", "n", "e", "e", "d", "e", "d", ".">>

\* --------------------------------------------------------- request values

\* A JavaScript value found where a text is expected: undefined, a string,
\* or a number (s holds the characters of the string, or of the number).
Undef == [tag |-> "undefined", s |-> <<>>]

Str(s) == [tag |-> "string", s |-> s]

Num(n) == [tag |-> "number", s |-> Digits(n)]

\* A Part: a text, an inline binary payload, a file reference.
TextPart(s) == [text |-> Str(s), inline_data |-> FALSE, file_data |-> FALSE]

NumberPart(n) == [text |-> Num(n), inline_data |-> FALSE, file_data |-> FALSE]

InlinePart == [text |-> Undef, inline_data |-> TRUE, file_data |-> FALSE]

FilePart == [text |-> Undef, inline_data |-> FALSE, file_data |-> TRUE]

\* A Turn: an object with or without a parts array, or null.
Turn(parts) == [tag |-> "object", hasParts |-> TRUE, parts |-> parts]

BareTurn == [tag |-> "object", hasParts |-> FALSE, parts |-> <<>>]

NullTurn == [tag |-> "null", hasParts |-> FALSE, parts |-> <<>>]

\* The value of req.body.contents.
Contents(turns) == [tag |-> "array", turns |-> turns]

NotArray(tag) == [tag |-> tag, turns |-> <<>>]

\* JavaScript truthiness of the value of contents.
Truthy(contents) == contents.tag \in {"array", "object", "string"}

IsArray(contents) == contents.tag = "array"

\* generationConfig.maxOutputTokens: absent, or a number.
NoLimit == [set |-> FALSE, n |-> 0]

Limit(n) == [set |-> TRUE, n |-> n]

\* ------------------------------------------------------------------- JSON

\* The escapes JSON.stringify applies inside a string.
RECURSIVE EscapeJson(_)
EscapeJson(s) ==
  IF Len(s) = 0 THEN <<>>
  ELSE IF Len(s) = 1
    THEN (CASE s[1] = NL -> <<BS, "n">>
            [] s[1] = BS -> <<BS, BS>>
            [] s[1] = QUOTE -> <<BS, QUOTE>>
            [] s[1] = "\t" -> <<BS, "t">>
            [] s[1] = "\r" -> <<BS, "r">>
            [] OTHER -> s)
  ELSE LET half == Len(s) \div 2
       IN  EscapeJson(SubSeq(s, 1, half)) \o EscapeJson(SubSeq(s, half + 1, Len(s)))

JsonString(s) == <<QUOTE>> \o EscapeJson(s) \o <<QUOTE>>

RECURSIVE JoinComma(_)
JoinComma(items) ==
  IF Len(items) = 0 THEN <<>>
  ELSE IF Len(items) = 1 THEN items[1]
  ELSE items[1] \o <<",">> \o JoinComma(Tail(items))

JsonPart(part) ==
  LET fields ==
        (IF part.text.tag = "string" THEN <<JsonTextKey \o JsonString(part.text.s)>>
         ELSE IF part.text.tag = "number" THEN <<JsonTextKey \o part.text.s>>
         ELSE <<>>)
        \o (IF part.inline_data THEN <<JsonInlineData>> ELSE <<>>)
        \o (IF part.file_data THEN <<JsonFileData>> ELSE <<>>)
  IN  <<"{">> \o JoinComma(fields) \o <<"}">>

JsonTurn(turn) ==
  IF turn.tag = "null" THEN JsonNull
  ELSE IF ~turn.hasParts THEN <<"{", "}">>
  ELSE <<"{">> \o JsonPartsKey \o <<"[">>
       \o JoinComma([i \in 1..Len(turn.parts) |-> JsonPart(turn.parts[i])])
       \o <<"]", "}">>

\* JSON.stringify(contents), contents an array
JsonContents(contents) ==
  <<"[">> \o JoinComma([i \in 1..Len(contents.turns) |-> JsonTurn(contents.turns[i])])
  \o <<"]">>

\* ------------------------------------------------------ response generation

\* Math.random() is rnd / RandomDenominator, rnd in 0..RandomDenominator-1.
RandomDenominator == 12

RandomValues == {0, 3}

\* responses[Math.floor(Math.random() * responses.length)], 1-based
RandomIndex(rnd, n) == ((rnd * n) \div RandomDenominator) + 1

\* The estimate rounded down.
estimateTokensFloor(text) == (10 * Len(text)) \div 13

estimateTokens(text) == (10 * Len(text) + 12) \div 13

generateImageResponse(userText, rnd) ==
  LET responses == <<ImageText0, ImageText1, ImageText2>>
  IN  responses[RandomIndex(rnd, Len(responses))]

generateCodeResponse(userText) ==
  IF Includes(userText, KwPython) THEN PythonTemplate
  ELSE IF Includes(userText, KwJavascript) THEN JavaScriptTemplate
  ELSE GenericCodeText

generateDebugResponse(userText) == DebugText

generateExplanationResponse(userText) == ExplanationText

generateDefaultResponse(userText, rnd) ==
  LET responses == <<DefaultLeadIn0, DefaultLeadIn1, DefaultLeadIn2, DefaultLeadIn3>>
  IN  responses[RandomIndex(rnd, Len(responses))]
      \o DefaultQueryOpen \o Substring0(userText, EchoLimit)
      \o (IF Len(userText) > EchoLimit THEN Ellipsis ELSE <<>>)
      \o DefaultQueryClose

\* part.inline_data || part.file_data, for some part of some turn; reading
\* .parts of a null turn throws.  Array.prototype.some stops at the first hit.
RECURSIVE SomeImage(_, _)
SomeImage(turns, i) ==
  IF i > Len(turns) THEN "false"
  ELSE IF turns[i].tag = "null" THEN "throw"
  ELSE IF turns[i].hasParts
          /\ \E j \in 1..Len(turns[i].parts) :
               turns[i].parts[j].inline_data \/ turns[i].parts[j].file_data
    THEN "true"
  ELSE SomeImage(turns, i + 1)

\* The keyword cascade run before the check for media.
generateContextualResponseTextFirst(userText, contents, rnd) ==
  LET text == ToLowerCase(userText)
      hasImage == SomeImage(contents.turns, 1) = "true"
  IN  IF Includes(text, KwHaiku) THEN HaikuText
      ELSE IF Includes(text, KwCode) \/ Includes(text, KwFunction)
              \/ Includes(text, KwPython) \/ Includes(text, KwJavascript)
        THEN generateCodeResponse(userText)
      ELSE IF Includes(text, KwError) \/ Includes(text, KwDebug) \/ Includes(text, KwFix)
        THEN generateDebugResponse(userText)
      ELSE IF Includes(text, KwExplain) \/ Includes(text, KwWhatIs) \/ Includes(text, KwHowTo)
        THEN generateExplanationResponse(userText)
      ELSE IF Includes(text, KwTest) \/ Includes(text, KwTesting) THEN TestingText
      ELSE IF hasImage THEN generateImageResponse(userText, rnd)
      ELSE generateDefaultResponse(userText, rnd)

generateContextualResponse(userText, contents, rnd) ==
  LET text == ToLowerCase(userText)
      hasImage == SomeImage(contents.turns, 1) = "true"
  IN  IF hasImage THEN generateImageResponse(userText, rnd)
      ELSE IF Includes(text, KwHaiku) THEN HaikuText
      ELSE IF Includes(text, KwCode) \/ Includes(text, KwFunction)
              \/ Includes(text, KwPython) \/ Includes(text, KwJavascript)
        THEN generateCodeResponse(userText)
      ELSE IF Includes(text, KwError) \/ Includes(text, KwDebug) \/ Includes(text, KwFix)
        THEN generateDebugResponse(userText)
      ELSE IF Includes(text, KwExplain) \/ Includes(text, KwWhatIs) \/ Includes(text, KwHowTo)
        THEN generateExplanationResponse(userText)
      ELSE IF Includes(text, KwTest) \/ Includes(text, KwTesting) THEN TestingText
      ELSE generateDefaultResponse(userText, rnd)

\* lastContent.parts?.[0]?.text || ''
UserText(contents) ==
  LET lastContent == contents.turns[Len(contents.turns)]
  IN  IF ~lastContent.hasParts \/ Len(lastContent.parts) = 0 THEN Str(<<>>)
      ELSE LET t == lastContent.parts[1].text
           IN  IF t.tag = "undefined" \/ (t.tag = "string" /\ t.s = <<>>)
                 THEN Str(<<>>)
                 ELSE t

\* generateMockResponse throws a TypeError: contents[contents.length - 1] is
\* undefined or null, userText is not a string, or a turn read by the image
\* check is null.
GenerationThrows(requestBody) ==
  LET contents == requestBody.contents
  IN  IF Len(contents.turns) = 0 THEN TRUE
      ELSE IF contents.turns[Len(contents.turns)].tag = "null" THEN TRUE
      ELSE IF UserText(contents).tag # "string" THEN TRUE
      ELSE SomeImage(contents.turns, 1) = "throw"

\* if (generationConfig.maxOutputTokens) { ... }
ApplyGenerationConfig(responseText, maxOutputTokens) ==
  IF maxOutputTokens.set /\ maxOutputTokens.n # 0
    THEN LET maxWords == (10 * maxOutputTokens.n) \div 13
             words == Split(responseText)
         IN  IF Len(words) > maxWords
               THEN Join(Slice0(words, maxWords)) \o Ellipsis
               ELSE responseText
    ELSE responseText

SafetyRatings ==
  <<[category |-> "HARM_CATEGORY_HARASSMENT", probability |-> "NEGLIGIBLE"],
    [category |-> "HARM_CATEGORY_HATE_SPEECH", probability |-> "NEGLIGIBLE"],
    [category |-> "HARM_CATEGORY_SEXUALLY_EXPLICIT", probability |-> "NEGLIGIBLE"],
    [category |-> "HARM_CATEGORY_DANGEROUS_CONTENT", probability |-> "NEGLIGIBLE"]>>

\* The finish reason made to tell a truncated text (one that ends in "...").
ResponseOfMaxTokens(responseText, promptTokens, responseTokens, model) ==
  [candidates |->
     <<[content |-> [parts |-> <<[text |-> responseText]>>, role |-> "model"],
        finishReason |->
          IF Len(responseText) >= 3
             /\ SubSeq(responseText, Len(responseText) - 2, Len(responseText)) = Ellipsis
            THEN "MAX_TOKENS" ELSE "STOP",
        index |-> 0,
        safetyRatings |-> SafetyRatings]>>,
   usageMetadata |->
     [promptTokenCount |-> promptTokens,
      candidatesTokenCount |-> responseTokens,
      totalTokenCount |-> promptTokens + responseTokens],
   modelVersion |-> model]

\* The MockResponse around a text.
ResponseOf(responseText, promptTokens, responseTokens, model) ==
  [candidates |->
     <<[content |-> [parts |-> <<[text |-> responseText]>>, role |-> "model"],
        finishReason |-> "STOP",
        index |-> 0,
        safetyRatings |-> SafetyRatings]>>,
   usageMetadata |->
     [promptTokenCount |-> promptTokens,
      candidatesTokenCount |-> responseTokens,
      totalTokenCount |-> promptTokens + responseTokens],
   modelVersion |-> model]

\* Defined when GenerationThrows(requestBody) is false.
generateMockResponse(requestBody, model, rnd) ==
  LET contents == requestBody.contents
      userText == UserText(contents).s
      responseText ==
        ApplyGenerationConfig(generateContextualResponse(userText, contents, rnd),
                              requestBody.maxOutputTokens)
  IN  ResponseOf(responseText,
                 estimateTokens(JsonContents(contents)),
                 estimateTokens(responseText),
                 model)

\* JSON.stringify of a MockResponse.  The text of the part is rendered
\* character by character; the other strings are fixed enumeration values
\* and are rendered as single segments.
JsonSafetyRating(rating) ==
  <<"{", QUOTE, "category", QUOTE, ":", QUOTE, rating.category, QUOTE, ",",
    QUOTE, "probability", QUOTE, ":", QUOTE, rating.probability, QUOTE, "}">>

JsonCandidate(candidate) ==
  <<"{", QUOTE, "content", QUOTE, ":", "{", QUOTE, "parts", QUOTE, ":", "[">>
  \o JoinComma([i \in 1..Len(candidate.content.parts) |->
                  <<"{">> \o JsonTextKey \o JsonString(candidate.content.parts[i].text)
                  \o <<"}">>])
  \o <<"]", ",", QUOTE, "role", QUOTE, ":", QUOTE, candidate.content.role, QUOTE, "}", ",",
       QUOTE, "finishReason", QUOTE, ":", QUOTE, candidate.finishReason, QUOTE, ",",
       QUOTE, "index", QUOTE, ":">> \o Digits(candidate.index)
  \o <<",", QUOTE, "safetyRatings", QUOTE, ":", "[">>
  \o JoinComma([i \in 1..Len(candidate.safetyRatings) |->
                  JsonSafetyRating(candidate.safetyRatings[i])])
  \o <<"]", "}">>

JsonResponse(response) ==
  <<"{", QUOTE, "candidates", QUOTE, ":", "[">>
  \o JoinComma([i \in 1..Len(response.candidates) |-> JsonCandidate(response.candidates[i])])
  \o <<"]", ",", QUOTE, "usageMetadata", QUOTE, ":", "{",
       QUOTE, "promptTokenCount", QUOTE, ":">>
  \o Digits(response.usageMetadata.promptTokenCount)
  \o <<",", QUOTE, "candidatesTokenCount", QUOTE, ":">>
  \o Digits(response.usageMetadata.candidatesTokenCount)
  \o <<",", QUOTE, "totalTokenCount", QUOTE, ":">>
  \o Digits(response.usageMetadata.totalTokenCount)
  \o <<"}", ",", QUOTE, "modelVersion", QUOTE, ":">> \o JsonString(response.modelVersion)
  \o <<"}">>

\* ------------------------------------------------------------------ inputs

RequestIds == 1..MaxRequests

\* req.query.key and req.headers['x-api-key']; "" stands for an absent one.
KeyChoices ==
  {[query |-> "", header |-> ""],
   [query |-> "invalid_key_12345", header |-> ""],
   [query |-> "", header |-> "test_key"]}

Routes == {"generateContent", "streamGenerateContent"}

ModelChoices == {ModelPro}

UserTexts == {KwPython, <<"H", "i">>}

\* contents values the validation rejects
RejectedContents == {NotArray("undefined"), NotArray("null"), NotArray("string")}

\* arrays on which generateMockResponse throws
ThrowingContents == {Contents(<<>>), Contents(<<NullTurn>>)}

AnswerableContents == {Contents(<<Turn(<<TextPart(t)>>)>>) : t \in UserTexts}

LimitChoices == {NoLimit, Limit(1), Limit(MaxTokens)}

\* req.body: contents, generationConfig.maxOutputTokens and safetySettings
\* (the threshold asked for the four harm categories, "" when absent).
Body(contents, maxOutputTokens, safetySettings) ==
  [contents |-> contents, maxOutputTokens |-> maxOutputTokens,
   safetySettings |-> safetySettings]

Bodies ==
  {Body(c, NoLimit, "") : c \in RejectedContents \cup ThrowingContents}
  \cup {Body(c, l, "") : c \in AnswerableContents, l \in LimitChoices}
  \cup {Body(Contents(<<Turn(<<TextPart(KwPython)>>)>>), Limit(1), "BLOCK_NONE")}

EmptyBody == Body(NotArray("undefined"), NoLimit, "")

\* Math.random() * 1000 + 500
LatencyDelay(rnd) == ((rnd * LatencySpanMs) \div RandomDenominator) + LatencyBaseMs

\* Words of the response a request gets, whatever the random choice.
ResponseWords(body, model) ==
  {Len(Split(generateMockResponse(body, model, rnd).candidates[1].content.parts[1].text)) :
     rnd \in RandomValues}

\* The model admits a streaming request only if its response has at most
\* MaxStreamWords words.
MaxStreamWords == 4

Admitted(route, body, model) ==
  IF route # "streamGenerateContent" THEN TRUE
  ELSE IF ~(Truthy(body.contents) /\ IsArray(body.contents)) THEN TRUE
  ELSE IF GenerationThrows(body) THEN TRUE
  ELSE \A w \in ResponseWords(body, model) : w <= MaxStreamWords

\* The requests the clients may send.
RequestChoices ==
  {c \in [key : KeyChoices, route : Routes, body : Bodies, model : ModelChoices] :
     Admitted(c.route, c.body, c.model)}

\* ------------------------------------------------------------------- state

VARIABLES
  now,           \* the clock of the event loop, in ms
  requestCount,  \* this.requestCount
  rateHits,      \* requests the rate limiter counted in the current window
  rateWindowEnd, \* when the current window of the rate limiter ends (0: none open)
  req,           \* per request: what the handler keeps of it
  res,           \* per request: the response object
  stream,        \* per request: the closure of sendStreamingResponse
  timers,        \* pending setTimeout callbacks
  crashed,       \* an exception escaped a callback: the process is gone
  hist,          \* per request: what has been done for it so far
  environment,   \* pm.environment of the chat test script
  checker,       \* the APIUpdateChecker, its state file and the models endpoint
  collection,    \* the collection WorkspaceUpdater works on
  validator,     \* the CollectionValidator and the files it is given
  manager        \* the MockServerManager, its PID file and the processes

\* The variables of the mock server and of the programs around it.
serverVars ==
  <<now, requestCount, rateHits, rateWindowEnd, req, res, stream, timers, crashed, hist>>

toolVars == <<environment, checker, collection, validator, manager>>

vars ==
  <<now, requestCount, rateHits, rateWindowEnd, req, res, stream, timers, crashed, hist,
    environment, checker, collection, validator, manager>>

\* The value of the variable of a program that does not run.
Unused == <<>>

\* Only the mock server runs.
ServerOnly ==
  /\ environment = Unused
  /\ checker = Unused
  /\ collection = Unused
  /\ validator = Unused
  /\ manager = Unused

NoRequest ==
  [phase |-> "unsent", method |-> "", path |-> <<>>,
   key |-> [query |-> "", header |-> ""], route |-> "",
   body |-> EmptyBody, model |-> <<>>, handledAt |-> 0, delay |-> 0]

NoResponse ==
  [statusCode |-> 0, headersSent |-> FALSE, body |-> <<>>, writes |-> <<>>,
   wire |-> <<>>, endCalls |-> 0, closed |-> FALSE]

NoStream ==
  [started |-> FALSE, startAt |-> 0, fullResponse |-> <<>>, words |-> <<>>,
   currentText |-> <<>>]

NoHistory ==
  [gate |-> "", hit |-> 0, window |-> 0, latencyArmed |-> 0, generateCalls |-> 0,
   generateAt |-> 0, threw |-> FALSE, wordTimersArmed |-> {}]

\* { error: { code, message, status } }; a message is kept as the segments
\* it is put together from.
ErrorBodyOf(code, segments, status) ==
  [error |-> [code |-> code, message |-> segments, status |-> status]]

ErrorBody(code, message, status) == ErrorBodyOf(code, <<message>>, status)

\* res.json(body) without res.status(code).
SendJsonUnset(r, code, body) ==
  [res[r] EXCEPT !.headersSent = TRUE, !.body = <<body>>, !.endCalls = @ + 1]

\* res.status(code).json(body)
SendJson(r, code, body) ==
  [res[r] EXCEPT !.statusCode = code, !.headersSent = TRUE, !.body = <<body>>,
                 !.endCalls = @ + 1]

Init ==
  /\ now = 0
  /\ \E prior \in {0, RateLimitMax - 1} :
       /\ requestCount = prior
       /\ rateHits = prior
       /\ rateWindowEnd = IF prior = 0 THEN 0 ELSE RateWindowMs
  /\ req = [r \in RequestIds |-> NoRequest]
  /\ res = [r \in RequestIds |-> NoResponse]
  /\ stream = [r \in RequestIds |-> NoStream]
  /\ timers = {}
  /\ crashed = FALSE
  /\ hist = [r \in RequestIds |-> NoHistory]
  /\ ServerOnly

\* ----------------------------------------------------------------- actions

\* The key read from the query alone.
ApiKeyQueryOnly(key) == key.query

\* const apiKey = req.query.key || req.headers['x-api-key']
ApiKey(key) == IF key.query # "" THEN key.query ELSE key.header

\* The validation without its Array.isArray test.
InvalidContentsFalsyOnly(contents) == ~Truthy(contents)

\* !contents || !Array.isArray(contents)
InvalidContents(contents) == ~Truthy(contents) \/ ~IsArray(contents)

\* The time a pending timer is due first.
NextDue == CHOOSE d \in {t.due : t \in timers} : \A t \in timers : d <= t.due

\* Simulate processing delay: the timer handleGenerateContent arms.
LatencyTimer(r, due) == [kind |-> "latency", req |-> r, index |-> 0, due |-> due]

\* The path of a request, as its segments: /v1beta/models/:model/<route>.
GeneratePath(route) == <<"v1beta", "models", ":model", route>>

\* What is kept of the way of request r through the middleware: the count the
\* limiter gave it, the window it was counted in, and where it got to.
Gate(r, gate) ==
  [hist[r] EXCEPT !.hit = rateHits', !.window = rateWindowEnd', !.gate = gate]

\* A limiter that turns the 60th request of a window away already.
RateLimitedAt(hits) == hits >= RateLimitMax

\* The limiter turns the request away at the first count above the maximum.
RateLimited(hits) == hits > RateLimitMax

\* The record of a request a middleware or the default route has answered.
Turned(method, path, key) ==
  [NoRequest EXCEPT !.phase = "rejected", !.method = method, !.path = path,
                    !.key = key, !.handledAt = now]

\* return res.status(code).json({ error: ... }): next() is not called.
Reject(r, method, path, key, code, segments, status, way) ==
  /\ req' = [req EXCEPT ![r] = Turned(method, path, key)]
  /\ res' = [res EXCEPT ![r] = SendJson(r, code, ErrorBodyOf(code, segments, status))]
  /\ hist' = [hist EXCEPT ![r] = way]
  /\ UNCHANGED timers

\* The answer of the rate limiter to a request over the maximum.
RateReject(r, method, path, key) ==
  Reject(r, method, path, key, 429, <<"Rate limit exceeded. Please try again later.">>,
         "RESOURCE_EXHAUSTED", Gate(r, "rate"))

\* if (!apiKey) { return 401 } if (apiKey === 'invalid_key_12345') { return 401 }
KeyRejected(key) == ApiKey(key) = "" \/ ApiKey(key) = "invalid_key_12345"

KeyReject(r, method, path, key) ==
  Reject(r, method, path, key, 401,
         IF ApiKey(key) = "" THEN <<"API key is required">> ELSE <<"Invalid API key provided">>,
         "UNAUTHENTICATED", Gate(r, "key"))

\* handleGenerateContent(req, res, isStreaming), the synchronous part
handleGenerateContent(r, key, route, body, model, rnd) ==
  IF InvalidContents(body.contents)
    THEN /\ req' = [req EXCEPT ![r] = [Turned("POST", GeneratePath(route), key) EXCEPT
                                        !.route = route, !.body = body, !.model = model]]
         /\ res' = [res EXCEPT ![r] =
                      SendJson(r, 400, ErrorBody(400, "contents field is required and must be an array",
                                                 "INVALID_ARGUMENT"))]
         /\ hist' = [hist EXCEPT ![r] = Gate(r, "validation")]
         /\ UNCHANGED timers
    ELSE /\ req' = [req EXCEPT ![r] = [phase |-> "pending", method |-> "POST",
                                      path |-> GeneratePath(route), key |-> key,
                                      route |-> route, body |-> body, model |-> model,
                                      handledAt |-> now, delay |-> LatencyDelay(rnd)]]
         /\ timers' = timers \cup {LatencyTimer(r, now + LatencyDelay(rnd))}
         /\ hist' = [hist EXCEPT ![r] = [Gate(r, "passed") EXCEPT !.latencyArmed = @ + 1]]
         /\ UNCHANGED res

\* A POST to /v1beta/models/:model/<route> runs the middleware chain and
\* handleGenerateContent as one step, at the current time of the loop.
Arrive(r, key, route, body, model, rnd) ==
  /\ ~crashed
  /\ req[r].phase = "unsent"
  /\ \A q \in RequestIds : q < r => req[q].phase # "unsent"
  /\ UNCHANGED now
  /\ requestCount' = requestCount + 1
  /\ rateHits' = rateHits + 1
  /\ rateWindowEnd' = IF rateHits = 0 THEN now + RateWindowMs ELSE rateWindowEnd
  /\ UNCHANGED <<stream, crashed>>
  /\ IF RateLimited(rateHits + 1) THEN RateReject(r, "POST", GeneratePath(route), key)
     ELSE IF KeyRejected(key) THEN KeyReject(r, "POST", GeneratePath(route), key)
     ELSE handleGenerateContent(r, key, route, body, model, rnd)

\* index * 100
WordDelay(index) == index * WordDelayMs

\* The end test taken on the first word instead of the last.
IsFirstWord(index, words) == index = 0

\* index === words.length - 1
IsLastWord(index, words) == index = Len(words) - 1

\* The accumulation replaced by the word alone (a delta).
AppendWordDelta(currentText, word) == word \o <<SPACE>>

\* currentText += word + ' '
AppendWord(currentText, word) == currentText \o word \o <<SPACE>>

\* { ...fullResponse, candidates: [{ ...candidates[0], content: { ...content,
\*   parts: [{ text: currentText.trim() }] } }] }
StreamChunk(fullResponse, currentText) ==
  [fullResponse EXCEPT !.candidates =
     <<[fullResponse.candidates[1] EXCEPT !.content.parts = <<[text |-> Trim(currentText)]>>]>>]

\* JSON.stringify(streamChunk) + '\\n': the literal is a backslash and an n.
ChunkData(streamChunk) == JsonResponse(streamChunk) \o <<BS, "n">>

\* One accumulator shared by all calls (a field of the server).
SharedSlot(r) == 1

\* let currentText = '': every call of sendStreamingResponse has its own.
TextSlot(r) == r

\* The word delays counted from the handling of the request, not from the
\* start of the stream.
WordTimersEarly(r, words, start) ==
  {[kind |-> "word", req |-> r, index |-> index, due |-> req[r].handledAt + WordDelay(index)] :
     index \in 0..(Len(words) - 1)}

\* Only the first word timer armed at the start of the stream.
WordTimersChained(r, words, start) ==
  {[kind |-> "word", req |-> r, index |-> 0, due |-> start]}

\* words.forEach((word, index) => setTimeout(..., index * 100))
WordTimers(r, words, start) ==
  {[kind |-> "word", req |-> r, index |-> index, due |-> start + WordDelay(index)] :
     index \in 0..(Len(words) - 1)}

\* res.write(data), data the serialization of chunk: the data goes out
\* unless the client has gone away.
ResWrite(response, index, chunk, data) ==
  [response EXCEPT
     !.writes = Append(@, [index |-> index, chunk |-> chunk, at |-> now',
                           afterEnd |-> response.endCalls > 0,
                           delivered |-> ~response.closed]),
     !.wire = IF response.closed THEN @ ELSE @ \o data]

\* res.end()
ResEnd(response) == [response EXCEPT !.endCalls = @ + 1]

\* sendStreamingResponse(res, fullResponse), the synchronous part
sendStreamingResponse(r, fullResponse) ==
  LET text == fullResponse.candidates[1].content.parts[1].text
      words == Split(text)
  IN  /\ res' = [res EXCEPT ![r].statusCode = 200, ![r].headersSent = TRUE]
      /\ stream' = [stream EXCEPT ![r] =
                      [@ EXCEPT !.started = TRUE, !.startAt = now',
                                !.fullResponse = <<fullResponse>>, !.words = words],
                                ![TextSlot(r)].currentText = <<>>]
      /\ timers' = (timers \ {LatencyTimer(r, req[r].handledAt + req[r].delay)})
                     \cup WordTimers(r, words, now')
      /\ hist' = [hist EXCEPT ![r].generateCalls = @ + 1, ![r].generateAt = now',
                              ![r].wordTimersArmed = @ \cup WordTimers(r, words, now')]
      /\ req' = [req EXCEPT ![r].phase = "streaming"]

\* The callback of the latency timer of request r.
LatencyCallback(r, rnd) ==
  LET t == LatencyTimer(r, req[r].handledAt + req[r].delay)
  IN  /\ ~crashed
      /\ t \in timers
      /\ t.due = NextDue
      /\ now' = t.due
      /\ UNCHANGED <<requestCount, rateHits, rateWindowEnd>>
      /\ IF GenerationThrows(req[r].body)
           THEN \* a TypeError leaves the callback: nothing catches it
                /\ crashed' = TRUE
                /\ timers' = timers \ {t}
                /\ req' = [req EXCEPT ![r].phase = "failed"]
                /\ hist' = [hist EXCEPT ![r].generateCalls = @ + 1, ![r].generateAt = now',
                                        ![r].threw = TRUE]
                /\ UNCHANGED <<res, stream>>
           ELSE LET response == generateMockResponse(req[r].body, req[r].model, rnd)
                IN  /\ UNCHANGED crashed
                    /\ IF req[r].route = "streamGenerateContent"
                         THEN sendStreamingResponse(r, response)
                         ELSE /\ res' = [res EXCEPT ![r] = SendJson(r, 200, response)]
                              /\ timers' = timers \ {t}
                              /\ req' = [req EXCEPT ![r].phase = "done"]
                              /\ hist' = [hist EXCEPT ![r].generateCalls = @ + 1,
                                                      ![r].generateAt = now']
                              /\ UNCHANGED stream

\* The callback of the word timer of request r for words[index].
WordCallback(r, index) ==
  LET t == [kind |-> "word", req |-> r, index |-> index,
            due |-> stream[r].startAt + WordDelay(index)]
      words == stream[r].words
      currentText == AppendWord(stream[TextSlot(r)].currentText, words[index + 1])
      streamChunk == StreamChunk(stream[r].fullResponse[1], currentText)
      written == ResWrite(res[r], index, streamChunk, ChunkData(streamChunk))
  IN  /\ ~crashed
      /\ stream[r].started
      /\ t \in timers
      /\ t.due = NextDue
      /\ now' = t.due
      /\ timers' = timers \ {t}
      /\ stream' = [stream EXCEPT ![TextSlot(r)].currentText = currentText]
      /\ res' = [res EXCEPT ![r] = IF IsLastWord(index, words) THEN ResEnd(written) ELSE written]
      /\ req' = [req EXCEPT ![r].phase = IF IsLastWord(index, words) THEN "done" ELSE @]
      /\ UNCHANGED <<requestCount, rateHits, rateWindowEnd, crashed, hist>>

\* A close listener that clears the timers of the request.
TimersClearedOnClose(r, pending) == {t \in pending : t.req # r}

\* Nothing listens for the close of the connection: the timers stay armed.
TimersAfterClose(r, pending) == pending

\* The client closes the connection of a request that is still in flight.
ClientClose(r) ==
  /\ ~crashed
  /\ req[r].phase \in {"pending", "streaming"}
  /\ ~res[r].closed
  /\ res' = [res EXCEPT ![r].closed = TRUE]
  /\ timers' = TimersAfterClose(r, timers)
  /\ UNCHANGED <<now, requestCount, rateHits, rateWindowEnd, req, stream, crashed, hist>>

Next ==
  \/ \E r \in RequestIds, c \in RequestChoices, rnd \in RandomValues :
       Arrive(r, c.key, c.route, c.body, c.model, rnd) /\ UNCHANGED toolVars
  \/ \E r \in RequestIds, rnd \in RandomValues :
       LatencyCallback(r, rnd) /\ UNCHANGED toolVars
  \/ \E r \in RequestIds, index \in 0..(MaxStreamWords - 1) :
       WordCallback(r, index) /\ UNCHANGED toolVars
  \/ \E r \in RequestIds : ClientClose(r) /\ UNCHANGED toolVars

Spec == Init /\ [][Next]_vars

\* ----------------------------------------- sendStreamingResponse on its own

\* Response texts handed to sendStreamingResponse directly: the empty text,
\* one word, words separated by one or by two spaces, a space alone.
StreamTexts ==
  {<<>>, <<"a">>, <<"a", SPACE, "b">>, <<"a", SPACE, SPACE, "b">>, <<SPACE>>,
   <<"a", SPACE, "b", SPACE, "c", SPACE, "d">>}

\* this.sendStreamingResponse(res, response) for a response around text, on
\* a connection nothing was sent on yet.
StreamCall(r, text) ==
  /\ ~crashed
  /\ req[r].phase = "unsent"
  /\ \A q \in RequestIds : q < r => req[q].phase # "unsent"
  /\ UNCHANGED <<now, requestCount, rateHits, rateWindowEnd, crashed>>
  /\ sendStreamingResponse(r, ResponseOf(text, 0, estimateTokens(text), ModelPro))

StreamNext ==
  \/ \E r \in RequestIds, text \in StreamTexts :
       StreamCall(r, text) /\ UNCHANGED toolVars
  \/ \E r \in RequestIds, index \in 0..(MaxStreamWords - 1) :
       WordCallback(r, index) /\ UNCHANGED toolVars
  \/ \E r \in RequestIds : ClientClose(r) /\ UNCHANGED toolVars

StreamSpec == Init /\ [][StreamNext]_vars

\* ----------------------------------------------- the response engine's inputs

\* "Haiku code" (10 characters): haiku before the code keywords, upper-case letter
TxHaikuCode ==
  <<"H", "a", "i", "k", "u", " ", "c", "o", "d", "e">>

\* "fix code" (8 characters): code keywords before debug keywords
TxFixCode ==
  <<"f", "i", "x", " ", "c", "o", "d", "e">>

\* "debug how to" (12 characters): debug keywords before explain keywords
TxDebugHowTo ==
  <<"d", "e", "b", "u", "g", " ", "h", "o", "w", " ", "t", "o">>

\* "explain test" (12 characters): explain keywords before test keywords
TxExplainTest ==
  <<"e", "x", "p", "l", "a", "i", "n", " ", "t", "e", "s", "t">>

\* "testing" (7 characters): test keywords
TxTesting ==
  <<"t", "e", "s", "t", "i", "n", "g">>

\* "Hi" (2 characters): no keyword
TxHi ==
  <<"H", "i">>

\* "Python" (6 characters): python with an upper-case letter
TxPythonCap ==
  <<"P", "y", "t", "h", "o", "n">>

\* "javascript python" (17 characters): both languages
TxJsPython ==
  <<"j", "a", "v", "a", "s", "c", "r", "i", "p", "t", " ", "p", "y", "t",
    "h", "o", "n">>

\* "javascript" (10 characters): javascript
TxJavascript ==
  <<"j", "a", "v", "a", "s", "c", "r", "i", "p", "t">>

\* "JavaScript" (10 characters): javascript with upper-case letters
TxJavaScriptCap ==
  <<"J", "a", "v", "a", "S", "c", "r", "i", "p", "t">>

\* "Summarize the last quarterly numbers for the board." (51 characters): no keyword, 51 characters
TxLong ==
  <<"S", "u", "m", "m", "a", "r", "i", "z", "e", " ", "t", "h", "e", " ",
    "l", "a", "s", "t", " ", "q", "u", "a", "r", "t", "e", "r", "l", "y",
    " ", "n", "u", "m", "b", "e", "r", "s", " ", "f", "o", "r", " ", "t",
    "h", "e", " ", "b", "o", "a", "r", "d", ".">>

\* Largest generationConfig.maxOutputTokens of the requests below.
MaxEngineTokens == 13

\* Texts of the latest Turn.
EngineTexts ==
  {TxHaikuCode, TxFixCode, TxDebugHowTo, TxExplainTest, TxTesting, TxHi, KwPython,
   TxPythonCap, TxJsPython, TxJavascript, TxJavaScriptCap, TxLong, <<>>}

\* Math.random() in generateImageResponse and generateDefaultResponse
EngineRandom == {0, 3, 7, 11}

SingleTurn(text) == Contents(<<Turn(<<TextPart(text)>>)>>)

\* An earlier Turn asking for a haiku, then the latest Turn.
HistoryContents ==
  {Contents(<<Turn(<<TextPart(KwHaiku)>>), Turn(<<TextPart(t)>>)>>) : t \in {TxHi, TxTesting}}

\* An inline payload after the text, a file reference in an earlier Turn, an
\* inline payload before the text.
MediaContents ==
  {Contents(<<Turn(<<TextPart(TxHaikuCode), InlinePart>>)>>),
   Contents(<<Turn(<<FilePart>>), Turn(<<TextPart(KwPython)>>)>>),
   Contents(<<Turn(<<InlinePart, TextPart(TxTesting)>>)>>)}

\* A latest Turn of two text Parts: the first one empty, or without keyword.
MultiPartContents ==
  {Contents(<<Turn(<<TextPart(<<>>), TextPart(KwHaiku)>>)>>),
   Contents(<<Turn(<<TextPart(TxHi), TextPart(KwHaiku)>>)>>)}

EngineBodies ==
  {Body(SingleTurn(t), NoLimit, "") : t \in EngineTexts}
  \cup {Body(c, NoLimit, "") : c \in HistoryContents \cup MediaContents \cup MultiPartContents}
  \cup {Body(SingleTurn(TxHaikuCode), Limit(n), "") : n \in 0..MaxEngineTokens}
  \cup {Body(SingleTurn(TxHi), NoLimit, "BLOCK_NONE")}

\* ---------------------------------------------- the response engine on its own

\* One generateContent request after the other, each with a valid key and the
\* shortest latency.
EngineArrive(r, body) ==
  /\ \A q \in RequestIds : req[q].phase # "pending"
  /\ Arrive(r, [query |-> "", header |-> "test_key"], "generateContent", body, ModelPro, 0)

EngineInit == Init /\ rateHits = 0

EngineNext ==
  \/ \E r \in RequestIds, body \in EngineBodies :
       EngineArrive(r, body) /\ UNCHANGED toolVars
  \/ \E r \in RequestIds, rnd \in EngineRandom :
       LatencyCallback(r, rnd) /\ UNCHANGED toolVars

EngineSpec == EngineInit /\ [][EngineNext]_vars

\* ------------------------------------------------- the other requests, the gates

\* app.use('/v1beta', ...): the path lies under the mount point.
UnderV1beta(path) == Len(path) >= 1 /\ path[1] = "v1beta"

\* The POST routes of handleGenerateContent match the path.
GenerateRoute(method, path) ==
  method = "POST" /\ \E route \in Routes : path = GeneratePath(route)

\* res.json({ status: 'healthy', ..., requests_served: this.requestCount })
HealthBody(served) ==
  [status |-> "healthy", server |-> "Gemini Mock Server", timestamp |-> now,
   requests_served |-> served]

\* res.json({ models: [...] })
ModelsBody ==
  [models |->
     <<[name |-> "models/gemini-1.5-pro", version |-> "001",
        supportedGenerationMethods |-> <<"generateContent", "streamGenerateContent">>],
       [name |-> "models/gemini-1.5-flash", version |-> "001",
        supportedGenerationMethods |-> <<"generateContent", "streamGenerateContent">>]>>]

\* The record of a request a route has answered with 200.
Served(method, path, key) ==
  [NoRequest EXCEPT !.phase = "done", !.method = method, !.path = path, !.key = key,
                    !.handledAt = now]

\* A request that is no well-formed POST to a generate route runs the
\* middleware chain and the routes as one step.  parsed: express.json() could
\* read the body.  cors() answers an OPTIONS request itself; a body that
\* cannot be parsed takes the request to the error middleware; both happen
\* before the request is logged.
ArriveOther(r, method, path, key, parsed) ==
  LET logged == method # "OPTIONS" /\ parsed
      limited == logged /\ UnderV1beta(path)
      way(gate) == IF limited THEN Gate(r, gate) ELSE [hist[r] EXCEPT !.gate = gate]
  IN  /\ ~crashed
      /\ req[r].phase = "unsent"
      /\ \A q \in RequestIds : q < r => req[q].phase # "unsent"
      /\ ~(GenerateRoute(method, path) /\ parsed)
      /\ UNCHANGED <<now, stream, crashed>>
      /\ requestCount' = IF logged THEN requestCount + 1 ELSE requestCount
      /\ rateHits' = IF limited THEN rateHits + 1 ELSE rateHits
      /\ rateWindowEnd' = IF limited /\ rateHits = 0 THEN now + RateWindowMs
                          ELSE rateWindowEnd
      /\ IF method = "OPTIONS"
           THEN \* cors(): 204 No Content, no body
                /\ req' = [req EXCEPT ![r] = Served(method, path, key)]
                /\ res' = [res EXCEPT ![r].statusCode = 204, ![r].headersSent = TRUE,
                                      ![r].endCalls = @ + 1]
                /\ hist' = [hist EXCEPT ![r] = way("cors")]
                /\ UNCHANGED timers
         ELSE IF ~parsed
           THEN \* next(err) of express.json(): the error middleware answers
                Reject(r, method, path, key, 500, <<"Internal server error">>, "INTERNAL",
                       way("error"))
         ELSE IF limited /\ RateLimited(rateHits + 1) THEN RateReject(r, method, path, key)
         ELSE IF limited /\ KeyRejected(key) THEN KeyReject(r, method, path, key)
         ELSE IF method = "GET" /\ path = <<"health">>
           THEN /\ req' = [req EXCEPT ![r] = Served(method, path, key)]
                /\ res' = [res EXCEPT ![r] = SendJson(r, 200, HealthBody(requestCount'))]
                /\ hist' = [hist EXCEPT ![r] = way("route")]
                /\ UNCHANGED timers
         ELSE IF method = "GET" /\ path = <<"v1beta", "models">>
           THEN /\ req' = [req EXCEPT ![r] = Served(method, path, key)]
                /\ res' = [res EXCEPT ![r] = SendJson(r, 200, ModelsBody)]
                /\ hist' = [hist EXCEPT ![r] = way("route")]
                /\ UNCHANGED timers
         ELSE \* app.all('*', ...)
              Reject(r, method, path, key, 404,
                     <<"Endpoint not found: ", method, " ">> \o path, "NOT_FOUND",
                     way("default"))

\* The window of the rate limiter ends: its count starts anew.  Timers due
\* before the end of the window run first.
WindowExpires ==
  /\ ~crashed
  /\ rateWindowEnd > 0
  /\ IF timers = {} THEN TRUE ELSE NextDue >= rateWindowEnd
  /\ now' = rateWindowEnd
  /\ rateHits' = 0
  /\ rateWindowEnd' = 0
  /\ UNCHANGED <<requestCount, req, res, stream, timers, crashed, hist>>

\* req.query.key and req.headers['x-api-key'] together
GateKeys ==
  KeyChoices \cup
  {[query |-> "invalid_key_12345", header |-> "test_key"],
   [query |-> "test_key", header |-> "invalid_key_12345"]}

GateBodies == {Body(SingleTurn(TxHi), NoLimit, ""), EmptyBody}

\* The endpoints as the API reference writes them, for gemini-1.5-pro:
\* /v1beta/models/{model}:generateContent and :streamGenerateContent.  The
\* colon is no path separator, so model and method are one segment.
DocumentedPaths ==
  {<<"v1beta", "models", "gemini-1.5-pro:generateContent">>,
   <<"v1beta", "models", "gemini-1.5-pro:streamGenerateContent">>}

\* Requests to the other routes, to no route, to the documented endpoints,
\* CORS preflights, and a request whose JSON body is malformed.
OtherRequests ==
  {[method |-> "POST", path |-> path, parsed |-> TRUE] : path \in DocumentedPaths} \cup
  {[method |-> "GET", path |-> <<"health">>, parsed |-> TRUE],
   [method |-> "POST", path |-> <<"health">>, parsed |-> TRUE],
   [method |-> "GET", path |-> <<"v1beta", "models">>, parsed |-> TRUE],
   [method |-> "GET", path |-> <<"v1beta", "files">>, parsed |-> TRUE],
   [method |-> "OPTIONS", path |-> GeneratePath("generateContent"), parsed |-> TRUE],
   [method |-> "POST", path |-> GeneratePath("generateContent"), parsed |-> FALSE]}

\* The limiter has counted 59 or 60 requests of the client in the window that
\* is open when the run starts.
GateInit ==
  /\ now = 0
  /\ \E prior \in {RateLimitMax - 1, RateLimitMax} :
       requestCount = prior /\ rateHits = prior
  /\ rateWindowEnd = RateWindowMs
  /\ req = [r \in RequestIds |-> NoRequest]
  /\ res = [r \in RequestIds |-> NoResponse]
  /\ stream = [r \in RequestIds |-> NoStream]
  /\ timers = {}
  /\ crashed = FALSE
  /\ hist = [r \in RequestIds |-> NoHistory]
  /\ ServerOnly

GateNext ==
  \/ \E r \in RequestIds, key \in GateKeys, body \in GateBodies :
       Arrive(r, key, "generateContent", body, ModelPro, 0) /\ UNCHANGED toolVars
  \/ \E r \in RequestIds, key \in KeyChoices, c \in OtherRequests :
       ArriveOther(r, c.method, c.path, key, c.parsed) /\ UNCHANGED toolVars
  \/ \E r \in RequestIds : LatencyCallback(r, 0) /\ UNCHANGED toolVars
  \/ WindowExpires /\ UNCHANGED toolVars

GateSpec == GateInit /\ [][GateNext]_vars

\* ------------------------------------------- the chat test's conversation history

\* The state of the mock server right after its construction, for the
\* specifications of the programs around it.
ServerIdle ==
  /\ now = 0
  /\ requestCount = 0
  /\ rateHits = 0
  /\ rateWindowEnd = 0
  /\ req = [r \in RequestIds |-> NoRequest]
  /\ res = [r \in RequestIds |-> NoResponse]
  /\ stream = [r \in RequestIds |-> NoStream]
  /\ timers = {}
  /\ crashed = FALSE
  /\ hist = [r \in RequestIds |-> NoHistory]

\* { role: 'model', parts: [{ text: assistantResponse }], timestamp: ... }
HistoryEntry(text, timestamp) ==
  [role |-> "model", parts |-> <<[text |-> text]>>, timestamp |-> timestamp]

\* What pm.environment holds under conversation_history: nothing, a string
\* JSON.parse throws on, the JSON text of a value that is no array, or the
\* JSON text of an array.
NotStored == [tag |-> "undefined", items |-> <<>>]

Unparseable == [tag |-> "garbage", items |-> <<>>]

JsonObject == [tag |-> "object", items |-> <<>>]

\* JSON.stringify(history) of an array
JsonArray(items) == [tag |-> "array", items |-> items]

\* A history of n entries the script stored earlier.
StoredEarlier(n) == JsonArray([i \in 1..n |-> HistoryEntry("earlier", i)])

\* The texts of the chat responses.
ChatTexts == {"Sure, here is how it works.", "Happy to help with that."}

\* A slice that keeps the first n elements.
SliceLastKeepOldest(history, n) ==
  IF Len(history) <= n THEN history ELSE SubSeq(history, 1, n)

\* history.slice(-n): the last n elements, all of them if there are fewer.
SliceLast(history, n) ==
  IF Len(history) <= n THEN history
  ELSE SubSeq(history, Len(history) - n + 1, Len(history))

\* if (currentHistory) { try { history = JSON.parse(currentHistory) } catch ... }:
\* the array the test goes on with; for a value that is no array there is none.
ParsedHistory(currentHistory) ==
  IF currentHistory.tag = "array" THEN currentHistory.items ELSE <<>>

\* history.push({...}); if (history.length > 20) history = history.slice(-20)
UpdatedHistory(history, entry) ==
  LET pushed == Append(history, entry)
  IN  IF Len(pushed) > HistoryLimit THEN SliceLast(pushed, HistoryLimit) ELSE pushed

\* pm.test('Update Conversation History') for a chat response with the text.
\* On a stored value that parses to something that is no array, push is no
\* function: the test throws and fails, nothing is stored.
UpdateConversationHistory(text) ==
  LET currentHistory == environment.conversation_history
      entry == HistoryEntry(text, environment.clock + 1)
  IN  /\ environment.responses < MaxResponses
      /\ IF currentHistory.tag = "object"
           THEN environment' = [environment EXCEPT !.clock = @ + 1, !.responses = @ + 1,
                                                   !.failed = @ + 1]
           ELSE environment' =
                  [environment EXCEPT
                     !.conversation_history =
                        JsonArray(UpdatedHistory(ParsedHistory(currentHistory), entry)),
                     !.clock = @ + 1,
                     !.responses = @ + 1,
                     !.arrived = Append(@, entry)]
      /\ UNCHANGED <<serverVars, checker, collection, validator, manager>>

\* The environment before a chat response: nothing stored, a value left by
\* something else, or a history stored by earlier responses.  initial keeps
\* that value, arrived lists the entries in the order they were stored,
\* clock is the time.
HistoryInit ==
  /\ ServerIdle
  /\ \E stored \in {NotStored, Unparseable, JsonObject}
                     \cup {StoredEarlier(n) : n \in (HistoryLimit - 2)..HistoryLimit} :
       environment = [conversation_history |-> stored,
                      initial |-> stored,
                      arrived |-> ParsedHistory(stored),
                      clock |-> HistoryLimit, responses |-> 0, failed |-> 0]
  /\ checker = Unused
  /\ collection = Unused
  /\ validator = Unused
  /\ manager = Unused

HistoryNext == \E text \in ChatTexts : UpdateConversationHistory(text)

HistorySpec == HistoryInit /\ [][HistoryNext]_vars

\* ------------------------------------------------------------ APIUpdateChecker

\* A JavaScript object is the sequence of its <<key, value>> pairs, in the
\* order of its keys.  A model of the models endpoint:
ApiModel(name, description) ==
  <<<<"name", name>>, <<"displayName", "Gemini">>, <<"description", description>>>>

\* obj[key], "undefined" where the object has no such key
Prop(obj, key) ==
  IF \E i \in 1..Len(obj) : obj[i][1] = key
    THEN obj[CHOOSE i \in 1..Len(obj) : obj[i][1] = key][2]
    ELSE "undefined"

\* JSON.stringify(obj): the keys and values one after the other, in key order.
JsonStringify(obj) ==
  [i \in 1..(2 * Len(obj)) |-> obj[(i + 1) \div 2][IF i % 2 = 1 THEN 1 ELSE 2]]

\* JSON.parse of such a text.
JsonParse(text) == [i \in 1..(Len(text) \div 2) |-> <<text[2 * i - 1], text[2 * i]>>]

ModelNames == {"models/gemini-1.5-pro", "models/gemini-1.5-flash", "models/gemini-1.0-pro"}

ApiModels == {ApiModel(name, description) : name \in ModelNames, description \in {"d1", "d2"}}

\* The lists the models endpoint may return: the names of a list are distinct.
ModelLists ==
  {<<>>} \cup {<<m>> : m \in ApiModels}
         \cup {list \in {<<m1, m2>> : m1 \in ApiModels, m2 \in ApiModels} :
                 Prop(list[1], "name") # Prop(list[2], "name")}

\* What makeApiRequest('/v1beta/models') settles with: a rejection (network
\* error, or a body that is no JSON), an error object, a body without
\* models, or a list of models.
ModelsOutcomes ==
  {[tag |-> "rejected", models |-> <<>>], [tag |-> "error", models |-> <<>>],
   [tag |-> "nomodels", models |-> <<>>]}
    \cup {[tag |-> "models", models |-> list] : list \in ModelLists}

\* The default state of loadCurrentState.
DefaultState == [models |-> <<>>, lastUpdate |-> 0, version |-> "1.0.0"]

NoStateFile == [exists |-> FALSE, models |-> <<>>, lastUpdate |-> 0, version |-> ""]

\* A state file that loses the models.
StateFileOfNoModels(state) ==
  [exists |-> TRUE, models |-> <<>>, lastUpdate |-> state.lastUpdate,
   version |-> state.version]

\* JSON.stringify(newState, null, 2), written to .workspace-state.json
StateFileOf(state) ==
  [exists |-> TRUE,
   models |-> [i \in 1..Len(state.models) |-> JsonStringify(state.models[i])],
   lastUpdate |-> state.lastUpdate, version |-> state.version]

\* loadCurrentState()
loadCurrentState(file) ==
  IF file.exists
    THEN [models |-> [i \in 1..Len(file.models) |-> JsonParse(file.models[i])],
          lastUpdate |-> file.lastUpdate, version |-> file.version]
    ELSE DefaultState

\* The updateReport of the constructor.
NoReport ==
  [changes |-> <<>>, newModels |-> <<>>, deprecatedModels |-> <<>>,
   parameterChanges |-> <<>>, recommendations |-> <<>>]

\* models.map(m => m.name)
NamesOf(models) == [i \in 1..Len(models) |-> Prop(models[i], "name")]

\* Array.prototype.includes
ArrayIncludes(names, name) == \E i \in 1..Len(names) : names[i] = name

\* previousModels.find(m => m.name === name): the first one with the name
FindByName(models, name) ==
  models[CHOOSE i \in 1..Len(models) :
           /\ Prop(models[i], "name") = name
           /\ \A j \in 1..(i - 1) : Prop(models[j], "name") # name]

IsNewModel(previousModels, m) == ~ArrayIncludes(NamesOf(previousModels), Prop(m, "name"))

\* A test by the content of the model, not by its name.
IsDeprecatedModelByContent(currentModels, m) ==
  \A i \in 1..Len(currentModels) : currentModels[i] # m

IsDeprecatedModel(currentModels, m) == ~ArrayIncludes(NamesOf(currentModels), Prop(m, "name"))

\* The filter of changedModels.
IsChangedModel(previousModels, currentModel) ==
  IF ~ArrayIncludes(NamesOf(previousModels), Prop(currentModel, "name")) THEN FALSE
  ELSE JsonStringify(currentModel)
         # JsonStringify(FindByName(previousModels, Prop(currentModel, "name")))

\* if (list.length > 0) this.updateReport.changes.push({ type, count, details })
PushChange(changes, type, list, details) ==
  IF Len(list) > 0
    THEN Append(changes, [type |-> type, count |-> Len(list), details |-> details])
    ELSE changes

\* analyzeModelChanges(currentModels) on the report
analyzeModelChanges(report, previousModels, currentModels) ==
  LET isNew(m) == IsNewModel(previousModels, m)
      isDeprecated(m) == IsDeprecatedModel(currentModels, m)
      isChanged(m) == IsChangedModel(previousModels, m)
      newModels == SelectSeq(currentModels, isNew)
      deprecatedModels == SelectSeq(previousModels, isDeprecated)
      changedModels == SelectSeq(currentModels, isChanged)
      changes1 == PushChange(report.changes, "new_models", newModels,
                             [i \in 1..Len(newModels) |->
                                [name |-> Prop(newModels[i], "name"),
                                 displayName |-> Prop(newModels[i], "displayName"),
                                 description |-> Prop(newModels[i], "description")]])
      changes2 == PushChange(changes1, "deprecated_models", deprecatedModels,
                             NamesOf(deprecatedModels))
      changes3 == PushChange(changes2, "model_changes", changedModels,
                             NamesOf(changedModels))
  IN  [report EXCEPT
         !.newModels = IF Len(newModels) > 0 THEN newModels ELSE @,
         !.deprecatedModels = IF Len(deprecatedModels) > 0 THEN deprecatedModels ELSE @,
         !.changes = changes3]

\* What the generateContent probe of checkParameterChanges settles with: a
\* rejection, a candidate with the known fields, a candidate with one more.
ProbeOutcomes == {"rejected", "known", "newfield"}

\* checkParameterChanges() on the report; a rejection is caught and logged.
checkParameterChanges(report, probe) ==
  IF probe = "newfield"
    THEN [report EXCEPT !.parameterChanges =
            Append(@, [type |-> "new_response_fields", fields |-> <<"groundingMetadata">>])]
    ELSE report

\* What makeApiRequest('/v1/models') settles with.
VersionOutcomes == {"rejected", "error", "models"}

\* checkVersionChanges() on the report
checkVersionChanges(report, v1Response) ==
  IF v1Response = "models"
    THEN [report EXCEPT !.changes =
            Append(@, [type |-> "new_api_version", count |-> 0, details |-> <<"v1">>])]
    ELSE report

\* recommendations.push({ type, priority }) when the condition holds
Recommend(recommendations, condition, type, priority) ==
  IF condition THEN Append(recommendations, [type |-> type, priority |-> priority])
  ELSE recommendations

\* generateRecommendations() on the report; lastUpdate 0 is null, times are days
generateRecommendations(report, currentState, today) ==
  LET r1 == Recommend(<<>>, Len(report.newModels) > 0, "update_models", "medium")
      r2 == Recommend(r1, Len(report.deprecatedModels) > 0, "deprecated_models", "high")
      r3 == Recommend(r2, Len(report.parameterChanges) > 0, "parameter_updates", "low")
      r4 == Recommend(r3, currentState.lastUpdate # 0
                            /\ today - currentState.lastUpdate > MaintenanceDays,
                      "maintenance", "medium")
  IN  [report EXCEPT !.recommendations = r4]

\* No APIUpdateChecker has been constructed; stateFile is .workspace-state.json.
\* fileBefore, previousModels and fetched keep what the last check started
\* from, compared with and was given.
NoChecker(file, today) ==
  [stateFile |-> file, today |-> today, checks |-> 0, phase |-> "none",
   currentState |-> DefaultState, updateReport |-> NoReport,
   fileBefore |-> file, previousModels |-> <<>>, fetched |-> <<>>, response |-> ""]

\* new APIUpdateChecker(): a fresh process, some days after the last one
NewChecker(days) ==
  /\ checker.phase # "constructed"
  /\ checker.checks < MaxChecks
  /\ checker' = [checker EXCEPT !.phase = "constructed",
                                !.today = @ + days,
                                !.currentState = loadCurrentState(checker.stateFile),
                                !.updateReport = NoReport]
  /\ UNCHANGED <<serverVars, environment, collection, validator, manager>>

\* checkForUpdates(): modelsResponse, the probe and the v1 response are what
\* the three requests settle with.
checkForUpdates(modelsResponse, probe, v1Response) ==
  /\ checker.phase = "constructed"
  /\ IF modelsResponse.tag \in {"rejected", "error"}
       THEN \* the await rejects, or throw new Error('API Error: ...'): rethrown
            checker' = [checker EXCEPT !.phase = "threw", !.checks = @ + 1,
                                       !.fileBefore = checker.stateFile,
                                       !.response = modelsResponse.tag]
       ELSE LET currentModels == modelsResponse.models
                previousModels == checker.currentState.models
                analyzed == analyzeModelChanges(checker.updateReport, previousModels,
                                                currentModels)
                probed == checkParameterChanges(analyzed, probe)
                versioned == checkVersionChanges(probed, v1Response)
                report == generateRecommendations(versioned, checker.currentState,
                                                  checker.today)
                newState == [models |-> currentModels, lastUpdate |-> checker.today,
                             version |-> checker.currentState.version]
            IN  checker' = [checker EXCEPT !.phase = "returned", !.checks = @ + 1,
                                           !.updateReport = report,
                                           !.stateFile = StateFileOf(newState),
                                           !.fileBefore = checker.stateFile,
                                           !.previousModels = previousModels,
                                           !.fetched = currentModels,
                                           !.response = modelsResponse.tag]
  /\ UNCHANGED <<serverVars, environment, collection, validator, manager>>

CheckerInit ==
  /\ ServerIdle
  /\ checker = NoChecker(NoStateFile, 1)
  /\ environment = Unused
  /\ collection = Unused
  /\ validator = Unused
  /\ manager = Unused

CheckerNext ==
  \/ \E days \in {1, MaintenanceDays + 1} : NewChecker(days)
  \/ \E modelsResponse \in ModelsOutcomes, probe \in ProbeOutcomes,
        v1Response \in VersionOutcomes :
       checkForUpdates(modelsResponse, probe, v1Response)

CheckerSpec == CheckerInit /\ [][CheckerNext]_vars

\* ------------------------------------------- WorkspaceUpdater.removeDeprecatedModels

\* A URL or a value is the sequence of the pieces it is written from; a
\* model's short name is one piece.  url.includes(piece):
MentionsPiece(url, piece) == \E i \in 1..Len(url) : url[i] = piece

\* url.replace(piece, by) with a string pattern: the first occurrence only
ReplaceFirst(url, piece, by) ==
  IF ~MentionsPiece(url, piece) THEN url
  ELSE LET first == CHOOSE i \in 1..Len(url) :
                      url[i] = piece /\ \A j \in 1..(i - 1) : url[j] # piece
       IN  [url EXCEPT ![first] = by]

\* name.split('/').pop() of a model name such as models/gemini-pro, kept as
\* its parts
ShortName(name) == name[Len(name)]

\* The URL of a request, as a string or as an object with raw; a folder has
\* no request.
StringUrl(raw) == [kind |-> "string", raw |-> raw]

ObjectUrl(raw) == [kind |-> "object", raw |-> raw]

NoUrl == [kind |-> "none", raw |-> <<>>]

\* An item of a collection: a request, or a folder of items.
RequestItem(name, url) == [name |-> name, url |-> url, item |-> <<>>]

FolderItem(name, items) == [name |-> name, url |-> NoUrl, item |-> items]

\* The callback of removeDeprecatedModels on one item: url is read once,
\* before the loop over the deprecated names, and each replacement is made
\* in that url.
UpdateRequestUrl(item, deprecatedNames) ==
  IF item.url.kind = "none" THEN [item |-> item, updated |-> FALSE]
  ELSE LET url == item.url.raw
           hits == {i \in 1..Len(deprecatedNames) :
                      MentionsPiece(url, ShortName(deprecatedNames[i]))}
       IN  IF hits = {} THEN [item |-> item, updated |-> FALSE]
           ELSE LET last == CHOOSE i \in hits : \A j \in hits : j <= i
                    newUrl == ReplaceFirst(url, ShortName(deprecatedNames[last]),
                                           "gemini-1.5-pro")
                IN  [item |-> [item EXCEPT !.url.raw = newUrl], updated |-> TRUE]

\* updateItemsRecursively(items, callback) with that callback: the items
\* after it, and whether the callback set updated.
RECURSIVE updateItemsRecursively(_, _)
updateItemsRecursively(items, deprecatedNames) ==
  LET one(i) == LET own == UpdateRequestUrl(items[i], deprecatedNames)
                    below == updateItemsRecursively(own.item.item, deprecatedNames)
                IN  [item |-> [own.item EXCEPT !.item = below.items],
                     updated |-> own.updated \/ below.updated]
  IN  [items |-> [i \in 1..Len(items) |-> one(i).item],
       updated |-> \E i \in 1..Len(items) : one(i).updated]

\* variable.value && deprecatedNames.some(name => variable.value.includes(short name))
IsDeprecatedVariable(variable, deprecatedNames) ==
  /\ variable.value # <<>>
  /\ \E i \in 1..Len(deprecatedNames) :
       MentionsPiece(variable.value, ShortName(deprecatedNames[i]))

\* removeDeprecatedModels(collection): the collection after it and the value
\* returned
removeDeprecatedModels(doc, deprecatedNames) ==
  LET keep(variable) == ~IsDeprecatedVariable(variable, deprecatedNames)
      variables == SelectSeq(doc.variable, keep)
      items == updateItemsRecursively(doc.item, deprecatedNames)
  IN  [doc |-> [variable |-> variables, item |-> items.items],
       updated |-> Len(variables) # Len(doc.variable) \/ items.updated]

\* The names of deprecated models: models/<short name>
DeprecatedChoices ==
  {<<"models", "gemini-pro">>, <<"models", "gemini-1.0-pro">>, <<"models", "gemini-1.5-pro">>}

\* updateReport.deprecatedModels.map(m => m.name): one or two models
DeprecatedLists ==
  {<<a>> : a \in DeprecatedChoices}
    \cup {l \in {<<a, b>> : a \in DeprecatedChoices, b \in DeprecatedChoices} : l[1] # l[2]}

\* Request URLs: no deprecated model, one, two different ones, one twice
\* (in the path and in the query), and the replacement model itself.
UrlChoices ==
  {<<"{{base_url}}/v1beta/models/", "gemini-1.5-flash", ":generateContent">>,
   <<"{{base_url}}/v1beta/models/", "gemini-pro", ":generateContent">>,
   <<"{{base_url}}/v1beta/models/", "gemini-pro", ":generateContent?fallback=", "gemini-1.0-pro">>,
   <<"{{base_url}}/v1beta/models/", "gemini-pro", ":generateContent?fallback=", "gemini-pro">>,
   <<"{{base_url}}/v1beta/models/", "gemini-1.5-pro", ":generateContent">>}

NestedUrlChoices ==
  {<<"{{base_url}}/v1beta/models/", "gemini-1.5-flash", ":streamGenerateContent">>,
   <<"{{base_url}}/v1beta/models/", "gemini-1.0-pro", ":streamGenerateContent">>,
   <<"{{base_url}}/v1beta/models/", "gemini-pro", ":countTokens?also=", "gemini-pro">>}

VariableChoices ==
  {<<>>, <<[key |-> "model_name", value |-> <<"gemini-pro">>],
           [key |-> "base_url", value |-> <<"https://generativelanguage.googleapis.com">>]>>}

\* The collections: a request at the top and a request inside a folder.
CollectionChoices ==
  {[variable |-> variables,
    item |-> <<RequestItem("Generate", top),
               FolderItem("Streaming", <<RequestItem("Stream", ObjectUrl(nested))>>)>>] :
     variables \in VariableChoices,
     top \in {StringUrl(u) : u \in UrlChoices} \cup {ObjectUrl(u) : u \in UrlChoices},
     nested \in NestedUrlChoices}

\* updateCollection's call of removeDeprecatedModels on the collection read.
RemoveDeprecated(deprecatedNames) ==
  /\ collection.phase = "read"
  /\ LET result == removeDeprecatedModels(collection.doc, deprecatedNames)
     IN  collection' = [collection EXCEPT !.phase = "updated", !.doc = result.doc,
                                          !.updated = result.updated,
                                          !.deprecatedNames = deprecatedNames]
  /\ UNCHANGED <<serverVars, environment, checker, validator, manager>>

\* before keeps the collection as it was read.
UpdaterInit ==
  /\ ServerIdle
  /\ \E doc \in CollectionChoices :
       collection = [phase |-> "read", doc |-> doc, before |-> doc, updated |-> FALSE,
                     deprecatedNames |-> <<>>]
  /\ environment = Unused
  /\ checker = Unused
  /\ validator = Unused
  /\ manager = Unused

UpdaterNext == \E deprecatedNames \in DeprecatedLists : RemoveDeprecated(deprecatedNames)

UpdaterSpec == UpdaterInit /\ [][UpdaterNext]_vars

\* ----------------------------------------------------------- CollectionValidator

\* The content of a collection file, by what the validator looks at.  json:
\* "invalid" (JSON.parse throws), "null" (valid JSON without properties: the
\* first property read throws a TypeError) or "object".  info: "missing",
\* "bare" (no description) or "full".  item: "missing", "notarray" or
\* "array" with the requests given.  variables: the common {{...}} variables
\* all occur in the text.
CollectionFile(json, info, item, requests, variables) ==
  [json |-> json, info |-> info, item |-> item, requests |-> requests,
   variables |-> variables]

\* A request item of a collection: name, request.method, request.url, and
\* its test script ("none", "ok", "syntaxerror").
FileRequest(name, method, url, test) ==
  [name |-> name, method |-> method, url |-> url, test |-> test]

\* A finding: the file it is about and what it says.
Finding(file, what) == [file |-> file, what |-> what]

\* this.errors or this.warnings after the pushes for the conditions that hold
PushIf(list, condition, finding) == IF condition THEN Append(list, finding) ELSE list

\* The findings of the requests of a file, one request after the other.
RECURSIVE RequestErrors(_, _, _)
RequestErrors(errors, file, requests) ==
  IF requests = <<>> THEN errors
  ELSE LET r == Head(requests)
           e1 == PushIf(errors, ~r.method, Finding(file, "Request missing method"))
           e2 == PushIf(e1, r.url = "missing", Finding(file, "Request missing URL"))
           e3 == PushIf(e2, r.url = "noraw", Finding(file, "URL object missing 'raw' field"))
       IN  RequestErrors(e3, file, Tail(requests))

RECURSIVE RequestWarnings(_, _, _)
RequestWarnings(warnings, file, requests) ==
  IF requests = <<>> THEN warnings
  ELSE LET r == Head(requests)
           w1 == PushIf(warnings, r.name = "", Finding(file, "Item missing name"))
           w2 == PushIf(w1, r.url = "relative",
                        Finding(file, "URL should use environment variables or be absolute"))
       IN  RequestWarnings(w2, file, Tail(requests))

\* requestNames.filter((name, index) => requestNames.indexOf(name) !== index)
HasDuplicateNames(requests) ==
  \E i, j \in 1..Len(requests) :
    i < j /\ requests[i].name # "" /\ requests[i].name = requests[j].name

RECURSIVE ScriptErrors(_, _, _)
ScriptErrors(errors, file, requests) ==
  IF requests = <<>> THEN errors
  ELSE ScriptErrors(PushIf(errors, Head(requests).test = "syntaxerror",
                           Finding(file, "Test script syntax error")),
                    file, Tail(requests))

\* validateCollection(filePath) on the two lists.  The catch around the
\* parsing and the five validations turns any exception into one error.
validateCollection(errors, warnings, file, content) ==
  IF content.json # "object"
    THEN [errors |-> Append(errors, Finding(file, "Invalid JSON")), warnings |-> warnings]
  ELSE LET requests == IF content.item = "array" THEN content.requests ELSE <<>>
           \* validateSchema
           e1 == PushIf(errors, content.info = "missing" \/ content.item = "missing",
                        Finding(file, "Missing required fields"))
           w1 == PushIf(warnings, content.info = "bare",
                        Finding(file, "Missing recommended info fields"))
           \* validateStructure
           e2 == IF content.item # "array"
                   THEN Append(e1, Finding(file, "'item' must be an array"))
                   ELSE RequestErrors(e1, file, requests)
           w2 == RequestWarnings(w1, file, requests)
           \* validateRequests
           w3 == PushIf(w2, requests = <<>>, Finding(file, "Collection contains no requests"))
           w4 == PushIf(w3, HasDuplicateNames(requests),
                        Finding(file, "Duplicate request names found"))
           \* validateEnvironmentVariables
           w5 == PushIf(w4, ~content.variables, Finding(file, "Missing common variables"))
           \* validateTests
           w6 == PushIf(w5, \E i \in 1..Len(requests) : requests[i].test = "none",
                        Finding(file, "requests without test scripts"))
           e3 == ScriptErrors(e2, file, requests)
       IN  [errors |-> e3, warnings |-> w6]

\* A printResults that fails on warnings as well.
printResultsStrict(errors, warnings) == errors = <<>> /\ warnings = <<>>

\* printResults(): return this.errors.length === 0
printResults(errors, warnings) == errors = <<>>

GoodRequest == FileRequest("Generate", TRUE, "string", "ok")

\* The files of the collections directory a run may find.
FileChoices ==
  {CollectionFile("invalid", "missing", "missing", <<>>, FALSE),
   CollectionFile("null", "missing", "missing", <<>>, FALSE),
   CollectionFile("object", "full", "array", <<GoodRequest>>, TRUE),
   CollectionFile("object", "bare", "array",
                  <<GoodRequest, FileRequest("Generate", TRUE, "relative", "none")>>, FALSE),
   CollectionFile("object", "full", "array",
                  <<FileRequest("", FALSE, "missing", "syntaxerror")>>, TRUE),
   CollectionFile("object", "missing", "notarray", <<>>, TRUE),
   CollectionFile("object", "full", "array", <<>>, TRUE)}

\* The directories: none, or up to MaxFiles JSON files.
DirectoryChoices ==
  UNION {[1..n -> FileChoices] : n \in 0..MaxFiles}

\* new CollectionValidator(), and the directory main finds.
NoValidator(exists, files) ==
  [directory |-> exists, files |-> files, errors |-> <<>>, warnings |-> <<>>,
   validated |-> 0, exitCode |-> -1]

\* main finds no collections directory, or no JSON file in it: exit(1).
ExitWithoutFiles ==
  /\ validator.exitCode = -1
  /\ ~validator.directory \/ validator.files = <<>>
  /\ validator' = [validator EXCEPT !.exitCode = 1]
  /\ UNCHANGED <<serverVars, environment, checker, collection, manager>>

\* One turn of files.forEach(file => validator.validateCollection(file)).
ValidateNext ==
  /\ validator.exitCode = -1
  /\ validator.directory
  /\ validator.validated < Len(validator.files)
  /\ LET file == validator.validated + 1
         after == validateCollection(validator.errors, validator.warnings, file,
                                     validator.files[file])
     IN  validator' = [validator EXCEPT !.errors = after.errors,
                                        !.warnings = after.warnings,
                                        !.validated = file]
  /\ UNCHANGED <<serverVars, environment, checker, collection, manager>>

\* const isValid = validator.printResults(); process.exit(isValid ? 0 : 1)
ExitWithResults ==
  /\ validator.exitCode = -1
  /\ validator.directory
  /\ validator.files # <<>>
  /\ validator.validated = Len(validator.files)
  /\ validator' = [validator EXCEPT
                     !.exitCode = IF printResults(validator.errors, validator.warnings)
                                    THEN 0 ELSE 1]
  /\ UNCHANGED <<serverVars, environment, checker, collection, manager>>

ValidatorInit ==
  /\ ServerIdle
  /\ \/ validator = NoValidator(FALSE, <<>>)
     \/ \E files \in DirectoryChoices : validator = NoValidator(TRUE, files)
  /\ environment = Unused
  /\ checker = Unused
  /\ collection = Unused
  /\ manager = Unused

ValidatorNext == ExitWithoutFiles \/ ValidateNext \/ ExitWithResults

ValidatorSpec == ValidatorInit /\ [][ValidatorNext]_vars

\* ------------------------------------------------------------- MockServerManager

\* The server processes the manager may spawn during one run, by PID.
Pids == 1..MaxSpawns

\* No command has run: no PID file (pidFile 0), no process.  procs tells of
\* each PID whether its process is unborn, alive or dead; mode how it was
\* started; foreground holds the servers whose interactive manager process
\* still runs; signalled the servers process.kill(pid, 'SIGTERM') was called
\* for; pendingRestart the options of a restart whose timer has not run;
\* last the command that ran last, and its server for a SIGINT.
NoManager ==
  [pidFile |-> 0, procs |-> [p \in Pids |-> "unborn"], mode |-> [p \in Pids |-> ""],
   foreground |-> {}, signalled |-> {}, pendingRestart |-> "",
   last |-> [op |-> "", pid |-> 0]]

\* getPid() while the PID file exists
getPid(m) == m.pidFile

\* isRunning(): the value returned
isRunning(m) == m.pidFile # 0 /\ m.procs[getPid(m)] = "alive"

\* isRunning(): the files after it; a stale PID file is unlinked
AfterIsRunning(m) ==
  IF m.pidFile # 0 /\ m.procs[getPid(m)] # "alive" THEN [m EXCEPT !.pidFile = 0] ELSE m

\* stop(): SIGTERM ends the server; the PID file is unlinked
stop(m) ==
  IF ~isRunning(m) THEN AfterIsRunning(m)
  ELSE [m EXCEPT !.procs[getPid(m)] = "dead", !.signalled = @ \cup {getPid(m)},
                 !.pidFile = 0]

\* start(options) with options.daemon = daemon; pid is the PID spawn() gives.
\* Only setupDaemonMode writes the PID file.
start(m, daemon, pid) ==
  IF isRunning(m) THEN m
  ELSE LET c == AfterIsRunning(m)
       IN  IF daemon
             THEN [c EXCEPT !.procs[pid] = "alive", !.mode[pid] = "daemon", !.pidFile = pid]
             ELSE [c EXCEPT !.procs[pid] = "alive", !.mode[pid] = "interactive",
                            !.foreground = @ \cup {pid}]

\* The PID the next spawn() gives.
NextPid(m) ==
  IF \E p \in Pids : m.procs[p] = "unborn"
    THEN CHOOSE p \in Pids : m.procs[p] = "unborn" /\ \A q \in Pids : q < p => m.procs[q] # "unborn"
    ELSE 0

\* The variables the manager leaves alone.
Others == <<serverVars, environment, checker, collection, validator>>

\* node start-mock-server.js start [--daemon]
StartCommand(daemon) ==
  /\ isRunning(manager) \/ NextPid(manager) # 0
  /\ manager' = [start(manager, daemon, NextPid(manager)) EXCEPT
                   !.last = [op |-> "start", pid |-> 0]]
  /\ UNCHANGED Others

\* node start-mock-server.js stop
StopCommand ==
  /\ manager' = [stop(manager) EXCEPT !.last = [op |-> "stop", pid |-> 0]]
  /\ UNCHANGED Others

\* node start-mock-server.js restart [--daemon]: stop() now, start() from a
\* timer a second later
RestartCommand(daemon) ==
  /\ manager.pendingRestart = ""
  /\ manager' = [stop(manager) EXCEPT
                   !.pendingRestart = IF daemon THEN "daemon" ELSE "interactive",
                   !.last = [op |-> "restart", pid |-> 0]]
  /\ UNCHANGED Others

\* The timer of restart runs: this.start(options)
RestartTimer ==
  /\ manager.pendingRestart # ""
  /\ isRunning(manager) \/ NextPid(manager) # 0
  /\ manager' = [start(manager, manager.pendingRestart = "daemon", NextPid(manager)) EXCEPT
                   !.pendingRestart = "", !.last = [op |-> "timer", pid |-> 0]]
  /\ UNCHANGED Others

\* The interactive manager that started server pid gets SIGINT: its handler
\* calls this.stop() and process.exit(0).  Ctrl+C in the terminal signals the
\* server as well (both are in the foreground process group); a signal sent
\* to the manager alone does not.
Sigint(pid, terminal) ==
  /\ pid \in manager.foreground
  /\ LET stopped == stop(manager)
     IN  manager' = [stopped EXCEPT
                       !.foreground = @ \ {pid},
                       !.procs[pid] = IF terminal THEN "dead" ELSE @,
                       !.last = [op |-> "sigint", pid |-> pid]]
  /\ UNCHANGED Others

\* A server process ends on its own; an interactive manager ends with it.
ServerExits(pid) ==
  /\ manager.procs[pid] = "alive"
  /\ manager' = [manager EXCEPT !.procs[pid] = "dead", !.foreground = @ \ {pid},
                                !.last = [op |-> "exit", pid |-> pid]]
  /\ UNCHANGED Others

ManagerInit ==
  /\ ServerIdle
  /\ manager = NoManager
  /\ environment = Unused
  /\ checker = Unused
  /\ collection = Unused
  /\ validator = Unused

ManagerNext ==
  \/ \E daemon \in BOOLEAN : StartCommand(daemon)
  \/ StopCommand
  \/ \E daemon \in BOOLEAN : RestartCommand(daemon)
  \/ RestartTimer
  \/ \E pid \in Pids, terminal \in BOOLEAN : Sigint(pid, terminal)
  \/ \E pid \in Pids : ServerExits(pid)

ManagerSpec == ManagerInit /\ [][ManagerNext]_vars

\* ------------------------------------------------------------------ claims

\* Request r went through the rate limiter and the key check and reached
\* handleGenerateContent.
ReachedHandler(r) == hist[r].gate \in {"validation", "passed"}

InvalidArgumentBody ==
  ErrorBody(400, "contents field is required and must be an array", "INVALID_ARGUMENT")

\* C1: a request that passed the rate and key gates and whose contents is
\* missing or is no array is answered 400 INVALID_ARGUMENT; no latency timer
\* is armed for it and generateMockResponse is never called for it.
C1_InvalidContentsRejected ==
  \A r \in RequestIds :
    (ReachedHandler(r) /\ req[r].body.contents.tag # "array") =>
      /\ res[r].statusCode = 400
      /\ res[r].body = <<InvalidArgumentBody>>
      /\ res[r].endCalls = 1
      /\ hist[r].latencyArmed = 0
      /\ hist[r].generateCalls = 0
      /\ \A t \in timers : t.req # r

\* A request with a truthy contents that is no array has been answered 400,
\* on either route.
C1_Witness ==
  \E r \in RequestIds :
    /\ ReachedHandler(r)
    /\ req[r].body.contents.tag = "string"
    /\ req[r].route = "streamGenerateContent"
    /\ res[r].statusCode = 400

\* C2: a generateContent request whose contents is the empty array is
\* answered 400 INVALID_ARGUMENT and generateMockResponse is never called
\* for it.  (While its latency timer is pending nothing has been answered;
\* the statement is about what the request finally gets.)
C2_EmptyContentsRejected ==
  \A r \in RequestIds :
    (ReachedHandler(r) /\ req[r].route = "generateContent"
       /\ req[r].body.contents = Contents(<<>>)) =>
      /\ hist[r].generateCalls = 0
      /\ req[r].phase # "pending" =>
            res[r].statusCode = 400 /\ res[r].body = <<InvalidArgumentBody>>

InternalErrorBody == ErrorBody(500, "Internal server error", "INTERNAL")

\* C3: when generateMockResponse throws in the callback of the latency
\* timer, the exception is caught, the client gets 500 INTERNAL and no
\* exception leaves the callback.
C3_GenerationFailureAnswered ==
  \A r \in RequestIds :
    hist[r].threw =>
      /\ ~crashed
      /\ res[r].statusCode = 500
      /\ res[r].body = <<InternalErrorBody>>

\* The text of the response sendStreamingResponse was given for request r.
StreamText(r) == stream[r].fullResponse[1].candidates[1].content.parts[1].text

\* The text a written chunk carries.
ChunkText(w) == w.chunk.candidates[1].content.parts[1].text

WordTimersIn(pending, r) == {t \in pending : t.kind = "word" /\ t.req = r}

\* C4: a stream whose text splits into W words writes W chunks, one per
\* word timer; res.end() is called once, in the step that writes chunk W-1,
\* and nothing is written after it.
C4_ChunksThenEnd ==
  \A r \in RequestIds :
    stream[r].started =>
      LET W == Len(Split(StreamText(r)))
          n == Len(res[r].writes)
      IN  /\ n <= W
          /\ WordTimersIn(timers, r) = {} => n = W
          /\ res[r].endCalls <= 1
          /\ res[r].endCalls = 1 <=> n = W
          /\ res[r].endCalls = 1 => res[r].writes[n].index = W - 1
          /\ \A i \in 1..n : ~res[r].writes[i].afterEnd

\* A stream of four words has been written out and ended.
C4_Witness ==
  \E r \in RequestIds :
    /\ stream[r].started
    /\ Len(Split(StreamText(r))) = 4
    /\ Len(res[r].writes) = 4
    /\ res[r].endCalls = 1

C6_StreamsIsolated ==
  \A r \in RequestIds :
    \A i \in 1..Len(res[r].writes) :
      LET w == res[r].writes[i]
      IN  /\ i > 1 => res[r].writes[i - 1].index < w.index
          /\ \E n \in 0..Len(StreamText(r)) :
                ChunkText(w) = Trim(SubSeq(StreamText(r), 1, n))
          /\ [w.chunk EXCEPT !.candidates[1].content.parts[1].text = StreamText(r)]
                = stream[r].fullResponse[1]

\* Two streams of different texts were started, a chunk of the second was
\* written between two chunks of the first, and the second is still under way.
C6_Witness ==
  /\ stream[1].started /\ stream[2].started
  /\ StreamText(1) # StreamText(2)
  /\ \E i \in 1..(Len(res[1].writes) - 1), j \in 1..Len(res[2].writes) :
       /\ res[1].writes[i].at < res[2].writes[j].at
       /\ res[2].writes[j].at < res[1].writes[i + 1].at
  /\ WordTimersIn(timers, 2) # {}

\* C7: a request that passes validation arms one latency timer, and only
\* such a request arms one; generateMockResponse is called once, not before
\* that timer is due; the word timers are armed in that call, word k due
\* k * 100 ms after it; no chunk is written before the latency has elapsed.
C7_LatencyBeforeGeneration ==
  \A r \in RequestIds :
    /\ hist[r].latencyArmed = (IF hist[r].gate = "passed" THEN 1 ELSE 0)
    /\ hist[r].generateCalls <= 1
    /\ req[r].phase = "pending" =>
          /\ hist[r].generateCalls = 0
          /\ \E t \in timers :
                t.kind = "latency" /\ t.req = r /\ t.due = req[r].handledAt + req[r].delay
    /\ hist[r].generateCalls = 1 =>
          /\ hist[r].latencyArmed = 1
          /\ hist[r].generateAt >= req[r].handledAt + req[r].delay
          /\ \A t \in timers : ~(t.kind = "latency" /\ t.req = r)
    /\ hist[r].wordTimersArmed # {} => hist[r].generateCalls = 1
    /\ \A t \in hist[r].wordTimersArmed : t.due = hist[r].generateAt + t.index * 100
    /\ \A i \in 1..Len(res[r].writes) :
          res[r].writes[i].at >= req[r].handledAt + req[r].delay + res[r].writes[i].index * 100

\* A streaming request handled after time 0 with a latency of 750 ms has
\* written its second chunk, 850 ms after it was handled.
C7_Witness ==
  \E r \in RequestIds :
    /\ req[r].handledAt > 0
    /\ req[r].delay = 750
    /\ Len(res[r].writes) >= 2
    /\ res[r].writes[2].at = req[r].handledAt + 850

\* C8: when a stream of W words starts, W word timers are armed, timer k
\* due k * 100 ms after the start; afterwards none is armed, so the pending
\* word timers of the stream are W minus the chunks written.
C8_AllWordTimersArmedAtStart ==
  \A r \in RequestIds :
    stream[r].started =>
      LET W == Len(Split(StreamText(r)))
      IN  /\ hist[r].wordTimersArmed =
                {[kind |-> "word", req |-> r, index |-> k, due |-> stream[r].startAt + k * 100] :
                   k \in 0..(W - 1)}
          /\ WordTimersIn(timers, r) \subseteq hist[r].wordTimersArmed
          /\ Cardinality(WordTimersIn(timers, r)) = W - Len(res[r].writes)

\* A stream of four words has written one chunk and has three timers pending.
C8_Witness ==
  \E r \in RequestIds :
    /\ stream[r].started
    /\ Len(stream[r].words) = 4
    /\ Len(res[r].writes) = 1
    /\ Cardinality(WordTimersIn(timers, r)) = 3

\* C9: once the client has closed the connection of a started stream, a
\* step leaves the stream's word timers as they are, or runs one of them:
\* that one attempts its write, and the last one calls res.end().
C9_NoCancellation ==
  [][\A r \in RequestIds :
       (stream[r].started /\ res'[r].closed) =>
         LET before == WordTimersIn(timers, r)
             after == WordTimersIn(timers', r)
         IN  \/ after = before /\ res'[r].writes = res[r].writes
             \/ \E t \in before :
                  /\ after = before \ {t}
                  /\ Len(res'[r].writes) = Len(res[r].writes) + 1
                  /\ res'[r].writes[Len(res'[r].writes)].index = t.index
                  /\ t.index = Len(stream[r].words) - 1 =>
                        res'[r].endCalls = res[r].endCalls + 1]_vars

\* The client closed the connection after the first chunk of a stream of
\* four words; the other three chunks were attempted all the same, without
\* being delivered, and res.end() was called.
C9_Witness ==
  \E r \in RequestIds :
    /\ res[r].closed
    /\ Len(stream[r].words) = 4
    /\ Len(res[r].writes) = 4
    /\ res[r].writes[1].delivered
    /\ \A i \in 2..4 : ~res[r].writes[i].delivered
    /\ res[r].endCalls = 1

\* The chunks in the order written, each as one JSON document followed by a
\* line feed.
RECURSIVE NewlineDelimited(_)
NewlineDelimited(writes) ==
  IF writes = <<>> THEN <<>>
  ELSE JsonResponse(Head(writes).chunk) \o <<NL>> \o NewlineDelimited(Tail(writes))

Delivered(w) == w.delivered

\* C10: what a stream has sent to the client is newline-delimited JSON: the
\* chunks delivered, each one JSON document followed by a line feed, and
\* nothing else.
C10_NewlineDelimitedJson ==
  \A r \in RequestIds :
    res[r].wire = NewlineDelimited(SelectSeq(res[r].writes, Delivered))

\* C11: for every text handed to sendStreamingResponse the stream ends: once
\* none of its word timers is left, res.end() has been called; and for the
\* empty text the splitting yields no word, so no chunk is written at all.
C11_EmptyTextNoChunk ==
  \A r \in RequestIds :
    stream[r].started =>
      /\ (WordTimersIn(timers, r) = {} => res[r].endCalls = 1)
      /\ (StreamText(r) = <<>> => stream[r].words = <<>> /\ res[r].writes = <<>>)

\* The text of the one part of the one candidate of a MockResponse.
ResponseText(response) == response.candidates[1].content.parts[1].text

\* Request r was answered 200 with a MockResponse on the non-streaming route.
Answered(r) == req[r].phase = "done" /\ req[r].route = "generateContent"

ImageTexts == {ImageText0, ImageText1, ImageText2}

CodeTexts == {PythonTemplate, JavaScriptTemplate, GenericCodeText}

DefaultLeadIns == {DefaultLeadIn0, DefaultLeadIn1, DefaultLeadIn2, DefaultLeadIn3}

\* The branch a response text comes from; the texts of the branches differ.
BranchOfText(t) ==
  IF t \in ImageTexts THEN "image"
  ELSE IF t = HaikuText THEN "haiku"
  ELSE IF t \in CodeTexts THEN "code"
  ELSE IF t = DebugText THEN "debug"
  ELSE IF t = ExplanationText THEN "explain"
  ELSE IF t = TestingText THEN "test"
  ELSE IF \E l \in DefaultLeadIns : IsPrefix(l \o DefaultQueryOpen, t) THEN "default"
  ELSE "none"

\* Some Part of some Turn is an inline payload or a file reference.
HasMedia(contents) ==
  \E i \in 1..Len(contents.turns) :
    \E j \in 1..Len(contents.turns[i].parts) :
      contents.turns[i].parts[j].inline_data \/ contents.turns[i].parts[j].file_data

\* The text of the first Part of the latest Turn, empty when it has none.
FirstPartText(contents) ==
  LET parts == contents.turns[Len(contents.turns)].parts
  IN  IF parts = <<>> \/ parts[1].text.tag # "string" THEN <<>> ELSE parts[1].text.s

Mentions(text, keywords) == \E k \in keywords : Includes(ToLowerCase(text), k)

\* The branch the fixed precedence gives a request.
BranchByPrecedence(contents, text) ==
  IF HasMedia(contents) THEN "image"
  ELSE IF Mentions(text, {KwHaiku}) THEN "haiku"
  ELSE IF Mentions(text, {KwCode, KwFunction, KwPython, KwJavascript}) THEN "code"
  ELSE IF Mentions(text, {KwError, KwDebug, KwFix}) THEN "debug"
  ELSE IF Mentions(text, {KwExplain, KwWhatIs, KwHowTo}) THEN "explain"
  ELSE IF Mentions(text, {KwTest, KwTesting}) THEN "test"
  ELSE "default"

Untruncated(r) == ~req[r].body.maxOutputTokens.set

\* C12: the branch of a response is the first match of media > haiku > code
\* keywords > debug keywords > explain keywords > test keywords > default, on
\* the request's parts and the lower-cased text of its latest Turn (here its
\* first Part); a request with media gets an image paragraph whatever its
\* text; two answered requests of the same contents have the same branch.
C12_BranchByPrecedence ==
  /\ \A r \in RequestIds :
       Answered(r) /\ Untruncated(r) =>
         BranchOfText(ResponseText(res[r].body[1])) =
           BranchByPrecedence(req[r].body.contents, FirstPartText(req[r].body.contents))
  /\ \A r1, r2 \in RequestIds :
       /\ Answered(r1) /\ Answered(r2) /\ Untruncated(r1) /\ Untruncated(r2)
       /\ req[r1].body.contents = req[r2].body.contents
       => BranchOfText(ResponseText(res[r1].body[1])) = BranchOfText(ResponseText(res[r2].body[1]))

\* A request of text "Haiku code" with an inline payload got the second image
\* paragraph, and the same contents sent again got the third one.
C12_Witness ==
  /\ Answered(1) /\ Answered(2)
  /\ req[1].body.contents = Contents(<<Turn(<<TextPart(TxHaikuCode), InlinePart>>)>>)
  /\ req[2].body.contents = req[1].body.contents
  /\ ResponseText(res[1].body[1]) = ImageText1
  /\ ResponseText(res[2].body[1]) = ImageText2

\* C13: in the code branch the language is chosen on the lower-cased text of
\* the latest Turn: a text without media and without "haiku" that mentions
\* "python" in any letter case gets the Python template; otherwise one that
\* mentions "javascript" gets the JavaScript template; otherwise a code query
\* gets the generic code paragraph.
C13_LanguageByLowerCase ==
  \A r \in RequestIds :
    LET contents == req[r].body.contents
        text == FirstPartText(contents)
    IN  /\ Answered(r) /\ Untruncated(r)
        /\ BranchByPrecedence(contents, text) = "code"
        => ResponseText(res[r].body[1]) =
             IF Mentions(text, {KwPython}) THEN PythonTemplate
             ELSE IF Mentions(text, {KwJavascript}) THEN JavaScriptTemplate
             ELSE GenericCodeText

\* floor(n / 1.3): the largest m with 1.3 * m <= n.
WordBudget(n) == CHOOSE m \in 0..n : 13 * m <= 10 * n /\ 13 * (m + 1) > 10 * n

\* The responses the request of r gets when nothing is truncated.
UntruncatedTexts(r) ==
  {generateContextualResponse(FirstPartText(req[r].body.contents), req[r].body.contents, rnd) :
     rnd \in EngineRandom}

\* Text t is text u cut to at most m space-separated words, with "..."
\* appended exactly when words were dropped.
CutToBudget(t, u, m) ==
  LET words == Split(u)
  IN  IF Len(words) <= m THEN t = u
      ELSE t = Join(SubSeq(words, 1, m)) \o Ellipsis

\* C14: when generationConfig.maxOutputTokens is a number N >= 0, the text
\* returned is the untruncated response cut to floor(N / 1.3) words, with a
\* trailing "..." if and only if words were dropped.
C14_TruncatedToBudget ==
  \A r \in RequestIds :
    Answered(r) /\ req[r].body.maxOutputTokens.set =>
      \E u \in UntruncatedTexts(r) :
        CutToBudget(ResponseText(res[r].body[1]), u, WordBudget(req[r].body.maxOutputTokens.n))

\* ceil(n / 1.3): the smallest k with 1.3 * k >= n.
CeilTokens(n) == CHOOSE k \in 0..n : 13 * k >= 10 * n /\ (k = 0 \/ 13 * (k - 1) < 10 * n)

\* C15: in every response to a valid request promptTokenCount is
\* ceil(length of JSON.stringify(contents) / 1.3), candidatesTokenCount is
\* ceil(length of the returned text / 1.3), totalTokenCount is their sum, and
\* the three are positive.
C15_TokenCounts ==
  \A r \in RequestIds :
    Answered(r) =>
      LET usage == res[r].body[1].usageMetadata
      IN  /\ usage.promptTokenCount = CeilTokens(Len(JsonContents(req[r].body.contents)))
          /\ usage.candidatesTokenCount = CeilTokens(Len(ResponseText(res[r].body[1])))
          /\ usage.totalTokenCount = usage.promptTokenCount + usage.candidatesTokenCount
          /\ usage.promptTokenCount > 0
          /\ usage.candidatesTokenCount > 0
          /\ usage.totalTokenCount > 0

\* The haiku cut to three words and "..." (31 characters) was counted as 24
\* tokens, and its prompt of 35 characters as 27.
C15_Witness ==
  \E r \in RequestIds :
    /\ Answered(r)
    /\ req[r].body = Body(SingleTurn(TxHaikuCode), Limit(5), "")
    /\ Len(ResponseText(res[r].body[1])) = 31
    /\ res[r].body[1].usageMetadata.candidatesTokenCount = 24
    /\ Len(JsonContents(req[r].body.contents)) = 35
    /\ res[r].body[1].usageMetadata.promptTokenCount = 27
    /\ res[r].body[1].usageMetadata.totalTokenCount = 51

HarmCategories ==
  {"HARM_CATEGORY_HARASSMENT", "HARM_CATEGORY_HATE_SPEECH",
   "HARM_CATEGORY_SEXUALLY_EXPLICIT", "HARM_CATEGORY_DANGEROUS_CONTENT"}

\* One candidate of role "model", finishReason STOP, index 0, one part, and
\* one NEGLIGIBLE rating for each of the four harm categories.
FixedEnvelope(response) ==
  /\ Len(response.candidates) = 1
  /\ LET candidate == response.candidates[1]
     IN  /\ candidate.content.role = "model"
         /\ Len(candidate.content.parts) = 1
         /\ candidate.finishReason = "STOP"
         /\ candidate.index = 0
         /\ Len(candidate.safetyRatings) = 4
         /\ {candidate.safetyRatings[i].category : i \in 1..4} = HarmCategories
         /\ \A i \in 1..4 : candidate.safetyRatings[i].probability = "NEGLIGIBLE"

\* The response with the text of its part replaced.
WithText(response, text) ==
  [response EXCEPT !.candidates[1].content.parts[1].text = text]

LastTurn(contents) == contents.turns[Len(contents.turns)]

CarriesText(part) == part.text.tag = "string" /\ part.text.s # <<>>

\* The text of a Turn: that of the first of its Parts that carries one.
TurnText(turn) ==
  IF \E j \in 1..Len(turn.parts) : CarriesText(turn.parts[j])
    THEN LET j == CHOOSE j \in 1..Len(turn.parts) :
                    /\ CarriesText(turn.parts[j])
                    /\ \A i \in 1..(j - 1) : ~CarriesText(turn.parts[i])
         IN  turn.parts[j].text.s
    ELSE <<>>

\* The default response quotes the first 50 characters of the text.
Echoes(responseText, text) ==
  \E l \in DefaultLeadIns :
    IsPrefix(l \o DefaultQueryOpen \o Substring0(text, EchoLimit), responseText)

\* C17: two answered requests without media whose latest Turns are equal have
\* the same branch, whatever their earlier Turns; and the text classified,
\* and echoed by the default response, is the text of the latest Turn,
\* whichever of its Parts carries it.
C17_LatestTurnOnly ==
  /\ \A r1, r2 \in RequestIds :
       /\ Answered(r1) /\ Answered(r2) /\ Untruncated(r1) /\ Untruncated(r2)
       /\ ~HasMedia(req[r1].body.contents) /\ ~HasMedia(req[r2].body.contents)
       /\ LastTurn(req[r1].body.contents) = LastTurn(req[r2].body.contents)
       => BranchOfText(ResponseText(res[r1].body[1])) = BranchOfText(ResponseText(res[r2].body[1]))
  /\ \A r \in RequestIds :
       LET contents == req[r].body.contents
           text == TurnText(LastTurn(contents))
           branch == BranchOfText(ResponseText(res[r].body[1]))
       IN  Answered(r) /\ Untruncated(r) /\ ~HasMedia(contents) =>
             /\ branch = BranchByPrecedence(contents, text)
             /\ branch = "default" => Echoes(ResponseText(res[r].body[1]), text)


\* req.query.key || req.headers['x-api-key'] of request r, as the client sent them.
EffectiveKey(r) == IF req[r].key.query # "" THEN req[r].key.query ELSE req[r].key.header

Keyless(r) == EffectiveKey(r) = "" \/ EffectiveKey(r) = "invalid_key_12345"

Unauthenticated(r) ==
  /\ res[r].statusCode = 401
  /\ Len(res[r].body) = 1
  /\ res[r].body[1].error.code = 401
  /\ res[r].body[1].error.status = "UNAUTHENTICATED"

\* Request r reached no route handler and not the engine.
NoHandler(r) ==
  /\ hist[r].gate \notin {"validation", "passed", "route", "default"}
  /\ hist[r].latencyArmed = 0
  /\ hist[r].generateCalls = 0
  /\ \A t \in timers : t.req # r

\* The rate limiter counted request r and let it through to the key check.
ReachedKeyCheck(r) == UnderV1beta(req[r].path) /\ hist[r].hit \in 1..RateLimitMax

\* C18 as stated: every request under /v1beta without a key, or with the
\* effective key invalid_key_12345, is answered 401 UNAUTHENTICATED.
C18_KeylessAlways401 ==
  \A r \in RequestIds :
    (req[r].phase # "unsent" /\ UnderV1beta(req[r].path) /\ Keyless(r)) =>
      Unauthenticated(r) /\ NoHandler(r)

\* C18, amended: every request under /v1beta that reaches the key check
\* without a key, or with the effective key invalid_key_12345, is answered
\* 401 UNAUTHENTICATED and reaches no route handler and not the engine; every
\* request that reaches the key check with another non-empty key passes it.
C18_KeyGate ==
  \A r \in RequestIds :
    ReachedKeyCheck(r) =>
      IF Keyless(r)
        THEN Unauthenticated(r) /\ NoHandler(r) /\ hist[r].gate = "key"
        ELSE /\ hist[r].gate \in {"validation", "passed", "route", "default"}
             /\ res[r].statusCode # 401

\* A request without any key was turned away at the key check, and a request
\* whose query key is good and whose header key is the bad literal passed it.
C18_Witness ==
  \E r, q \in RequestIds :
    /\ ReachedKeyCheck(r) /\ req[r].key = [query |-> "", header |-> ""]
    /\ Unauthenticated(r)
    /\ ReachedKeyCheck(q)
    /\ req[q].key = [query |-> "test_key", header |-> "invalid_key_12345"]
    /\ hist[q].gate = "passed"


\* The rate limiter counted request r.
Counted(r) == hist[r].hit > 0

\* Requests r and q were counted in the same window of the limiter.
SameWindow(r, q) == Counted(r) /\ Counted(q) /\ hist[r].window = hist[q].window

ResourceExhausted(r) ==
  /\ res[r].statusCode = 429
  /\ Len(res[r].body) = 1
  /\ res[r].body[1].error.status = "RESOURCE_EXHAUSTED"

\* C19: a request under /v1beta is counted in a window of one minute that
\* holds the time it arrived; the requests of a window are numbered one by
\* one, the 61st and later are answered 429 RESOURCE_EXHAUSTED and reach
\* neither the key check nor a handler, the 60th and earlier pass the rate
\* gate; and a window opened after the first one has ended numbers its
\* requests from 1 again.
C19_RateGate ==
  \A r \in RequestIds :
    /\ (req[r].phase # "unsent" /\ UnderV1beta(req[r].path)
          /\ req[r].method # "OPTIONS" /\ hist[r].gate # "error") => Counted(r)
    /\ Counted(r) =>
         /\ req[r].handledAt < hist[r].window
         /\ hist[r].window <= req[r].handledAt + RateWindowMs
         /\ IF hist[r].hit > RateLimitMax
              THEN ResourceExhausted(r) /\ NoHandler(r) /\ hist[r].gate = "rate"
              ELSE hist[r].gate \in {"key", "validation", "passed", "route", "default"}
                   /\ res[r].statusCode # 429
         /\ \A q \in RequestIds :
              (q < r /\ SameWindow(q, r)) =>
                hist[r].hit = hist[q].hit
                                + Cardinality({p \in (q + 1)..r : SameWindow(p, r)})
         /\ hist[r].window > RateWindowMs =>
              hist[r].hit = Cardinality({p \in 1..r : SameWindow(p, r)})

\* The 61st request of the first window was answered 429; after the window
\* had ended the next request, the first of a new window, reached the engine.
C19_Witness ==
  \E r, q \in RequestIds :
    /\ hist[r].hit = RateLimitMax + 1 /\ ResourceExhausted(r)
    /\ hist[r].window = RateWindowMs
    /\ hist[q].hit = 1 /\ hist[q].window > RateWindowMs
    /\ req[q].handledAt >= RateWindowMs
    /\ hist[q].gate = "passed"
    /\ hist[q].generateCalls = 1


\* The name of an HTTP status in an error body.
StatusName(code) ==
  CASE code = 400 -> "INVALID_ARGUMENT"
    [] code = 401 -> "UNAUTHENTICATED"
    [] code = 404 -> "NOT_FOUND"
    [] code = 429 -> "RESOURCE_EXHAUSTED"
    [] code = 500 -> "INTERNAL"
    [] OTHER -> ""

\* The response to request r is an error response: by its status, or by the
\* error member of its body.
ErrorResponse(r) ==
  \/ res[r].statusCode >= 400
  \/ Len(res[r].body) = 1 /\ "error" \in DOMAIN res[r].body[1]

\* C20: every error response is one JSON body { error: { code, message,
\* status } } with a message, whose code is the HTTP status sent and whose
\* status is the name of that status; the statuses sent are 400, 401, 404,
\* 429 and 500.
C20_ErrorShape ==
  \A r \in RequestIds :
    ErrorResponse(r) =>
      /\ res[r].endCalls = 1
      /\ Len(res[r].body) = 1
      /\ DOMAIN res[r].body[1] = {"error"}
      /\ DOMAIN res[r].body[1].error = {"code", "message", "status"}
      /\ res[r].body[1].error.code = res[r].statusCode
      /\ res[r].statusCode \in {400, 401, 404, 429, 500}
      /\ res[r].body[1].error.status = StatusName(res[r].statusCode)
      /\ res[r].body[1].error.message # <<>>

\* An unmatched route was answered 404 with the method and the path in the
\* message, and a request with a malformed body was answered 500.
C20_Witness ==
  \E r, q \in RequestIds :
    /\ res[r].statusCode = 404
    /\ res[r].body[1].error.message
         = <<"Endpoint not found: ", "GET", " ", "v1beta", "files">>
    /\ hist[q].gate = "error"
    /\ res[q].statusCode = 500
    /\ res[q].body[1].error.status = "INTERNAL"


\* The requests that arrive in a step.
Arriving == {r \in RequestIds : req[r].phase = "unsent" /\ req'[r].phase # "unsent"}

\* C21: this.requestCount never decreases; a step in which a request arrives
\* raises it by exactly one, whatever the answer to the request, and no
\* other step writes it; GET /health reports the value that counts the
\* health request itself.
C21_CountsEveryRequest ==
  [][/\ requestCount' >= requestCount
     /\ requestCount' = requestCount + Cardinality(Arriving)
     /\ \A r \in Arriving :
          (req'[r].method = "GET" /\ req'[r].path = <<"health">>) =>
            /\ res'[r].statusCode = 200
            /\ res'[r].body[1].requests_served = requestCount + 1]_vars


\* C22: a POST to a documented endpoint with a valid key that the rate
\* limiter admits is routed to handleGenerateContent (which answers 200 once
\* the latency timer has run) and is not answered 404.
C22_DocumentedEndpointServed ==
  \A r \in RequestIds :
    (/\ req[r].method = "POST" /\ req[r].path \in DocumentedPaths
     /\ ReachedKeyCheck(r) /\ ~Keyless(r)) =>
      /\ ReachedHandler(r)
      /\ res[r].statusCode # 404


\* The timers of request r that have not run yet.
TimersOf(r) == {t \in timers : t.req = r}

\* C24: no response is completed twice, and a request that has arrived and
\* has none of its timers left has been answered: its response was
\* completed exactly once and its headers were sent.
C24_ExactlyOneResponse ==
  \A r \in RequestIds :
    /\ res[r].endCalls <= 1
    /\ (req[r].phase # "unsent" /\ TimersOf(r) = {}) =>
         res[r].endCalls = 1 /\ res[r].headersSent


\* The last n elements of a sequence, by counting back from its end.
MostRecent(s, n) ==
  LET k == IF Len(s) < n THEN Len(s) ELSE n
  IN  [i \in 1..k |-> s[Len(s) - k + i]]

\* C23: once a chat response has been processed the stored history is a list
\* of at most 20 entries, the most recent ones stored in the order they
\* arrived; every response added exactly one entry, with role "model" and
\* the text of the response, to what was stored before, or to the empty list
\* when nothing was stored or the stored string could not be parsed.  (A
\* stored value that parses to something that is no array is left as it is.)
C23_HistoryBounded ==
  LET stored == environment.conversation_history
  IN  (environment.responses > 0 /\ stored.tag # "object") =>
        /\ stored.tag = "array"
        /\ Len(stored.items) <= 20
        /\ stored.items = MostRecent(environment.arrived, 20)
        /\ LET earlier == IF environment.initial.tag = "array"
                             THEN environment.initial.items ELSE <<>>
           IN  /\ Len(environment.arrived) = Len(earlier) + environment.responses
               /\ \A i \in 1..Len(environment.arrived) :
                    IF i <= Len(earlier)
                      THEN environment.arrived[i] = earlier[i]
                      ELSE /\ environment.arrived[i].role = "model"
                           /\ Len(environment.arrived[i].parts) = 1
                           /\ environment.arrived[i].parts[1].text \in ChatTexts
        /\ environment.failed = 0

\* A full history got three more entries: the three oldest were dropped.
C23_Witness ==
  /\ environment.responses = 3
  /\ Len(environment.arrived) = 23
  /\ Len(environment.conversation_history.items) = 20
  /\ environment.conversation_history.items[1] = HistoryEntry("earlier", 4)
  /\ environment.conversation_history.items[20].timestamp = 23


\* The types of the changes the report of the last check lists.
ChangeTypes == {checker.updateReport.changes[i].type :
                  i \in 1..Len(checker.updateReport.changes)}

ModelChangeTypes == {"new_models", "deprecated_models", "model_changes"}

\* C25: a check whose model-list request was rejected or returned an error
\* object has thrown and the state file is what it was before the check; a
\* check that returned has saved the fetched list as the state's models, and
\* when the list it fetched is the one saved by an earlier check its report
\* has no new, deprecated or changed models.
C25_PersistsOnSuccess ==
  checker.phase \in {"threw", "returned"} =>
    IF checker.response \in {"rejected", "error"}
      THEN checker.phase = "threw" /\ checker.stateFile = checker.fileBefore
      ELSE /\ checker.phase = "returned"
           /\ checker.stateFile.exists
           /\ loadCurrentState(checker.stateFile).models = checker.fetched
           /\ (/\ checker.fileBefore.exists
               /\ loadCurrentState(checker.fileBefore).models = checker.fetched) =>
                /\ checker.updateReport.newModels = <<>>
                /\ checker.updateReport.deprecatedModels = <<>>
                /\ ChangeTypes \cap ModelChangeTypes = {}

\* The second check fetched the two models the first one saved and reports
\* no change of the models.
C25_Witness ==
  /\ checker.checks = 2
  /\ checker.phase = "returned"
  /\ Len(checker.fetched) = 2
  /\ checker.fileBefore.exists
  /\ loadCurrentState(checker.fileBefore).models = checker.fetched
  /\ ChangeTypes \cap ModelChangeTypes = {}


\* The elements of a sequence.
Range(s) == {s[i] : i \in 1..Len(s)}

NameSet(models) == {Prop(m, "name") : m \in Range(models)}

\* The models of a list whose name is none of the names.
Absent(models, names) == {m \in Range(models) : Prop(m, "name") \notin names}

\* The names in both lists under which the two lists hold different models.
ChangedNames(previousModels, currentModels) ==
  {n \in NameSet(previousModels) \cap NameSet(currentModels) :
     \E p \in Range(previousModels), c \in Range(currentModels) :
       Prop(p, "name") = n /\ Prop(c, "name") = n /\ p # c}

\* The changes of a type in the report of the last check.
ChangesOfType(type) ==
  {i \in 1..Len(checker.updateReport.changes) : checker.updateReport.changes[i].type = type}

\* A change of the type is listed exactly when the set is not empty, once,
\* with the size of the set as its count.
ListedIffNonEmpty(type, set) ==
  /\ Cardinality(ChangesOfType(type)) = (IF set = {} THEN 0 ELSE 1)
  /\ \A i \in ChangesOfType(type) : checker.updateReport.changes[i].count = Cardinality(set)

\* C26: after a check that returned, newModels is the fetched models whose
\* name the saved state lacks, deprecatedModels the saved models whose name
\* the fetched list lacks, and the model_changes entry names the models in
\* both lists whose content differs; no name is in two of the three sets;
\* and each type of change is listed if and only if its set is not empty,
\* with the size of the set as count.
C26_ClassifiedByName ==
  checker.phase = "returned" =>
    LET previousModels == checker.previousModels
        currentModels == checker.fetched
        new == Absent(currentModels, NameSet(previousModels))
        deprecated == Absent(previousModels, NameSet(currentModels))
        changed == ChangedNames(previousModels, currentModels)
        report == checker.updateReport
    IN  /\ Range(report.newModels) = new
        /\ Len(report.newModels) = Cardinality(new)
        /\ Range(report.deprecatedModels) = deprecated
        /\ Len(report.deprecatedModels) = Cardinality(deprecated)
        /\ \A i \in ChangesOfType("model_changes") :
             Range(report.changes[i].details) = changed
        /\ NameSet(report.newModels) \cap NameSet(report.deprecatedModels) = {}
        /\ NameSet(report.newModels) \cap changed = {}
        /\ NameSet(report.deprecatedModels) \cap changed = {}
        /\ ListedIffNonEmpty("new_models", new)
        /\ ListedIffNonEmpty("deprecated_models", deprecated)
        /\ ListedIffNonEmpty("model_changes", changed)

\* A check found one new, one deprecated and one changed model.
C26_Witness ==
  /\ checker.phase = "returned"
  /\ Len(checker.updateReport.newModels) = 1
  /\ Len(checker.updateReport.deprecatedModels) = 1
  /\ \E i \in ChangesOfType("model_changes") : checker.updateReport.changes[i].count = 1


\* The URLs of the requests of a list of items, at any depth.
RECURSIVE UrlsOf(_)
UrlsOf(items) ==
  UNION {(IF items[i].url.kind = "none" THEN {} ELSE {items[i].url.raw})
           \cup UrlsOf(items[i].item) : i \in 1..Len(items)}

\* C27: after removeDeprecatedModels no request URL of the collection, at
\* any depth, contains the short name of a deprecated model, and the value
\* returned is true exactly when the collection is no longer what it was.
C27_NoDeprecatedLeft ==
  collection.phase = "updated" =>
    /\ \A url \in UrlsOf(collection.doc.item) :
         \A i \in 1..Len(collection.deprecatedNames) :
           ~MentionsPiece(url, ShortName(collection.deprecatedNames[i]))
    /\ collection.updated <=> (collection.doc # collection.before)


\* s is the beginning of t.
PrefixOf(s, t) == Len(s) <= Len(t) /\ SubSeq(t, 1, Len(s)) = s

\* The findings of a list that are about a file.
About(list, file) == {i \in 1..Len(list) : list[i].file = file}

\* What holds while the validator runs and after it: a file that is no valid
\* JSON has added exactly one error and no warning; the run exits with
\* results only after every file has been validated, a file after an invalid
\* one included; and the exit code after the validation is 0 exactly when
\* there is no error, whatever the warnings.
ValidatorResults ==
  /\ \A file \in 1..validator.validated :
       validator.files[file].json = "invalid" =>
         /\ Cardinality(About(validator.errors, file)) = 1
         /\ About(validator.warnings, file) = {}
  /\ (validator.exitCode # -1 /\ validator.directory /\ validator.files # <<>>) =>
       /\ validator.validated = Len(validator.files)
       /\ validator.exitCode = 0 <=> validator.errors = <<>>

\* C28: the errors and the warnings only grow, each step keeping what was
\* found before; a file that is no valid JSON adds one error and the files
\* after it are validated all the same; and the exit code after the
\* validation is 0 if and only if there is no error.
C28_FindingsAccumulate ==
  /\ []ValidatorResults
  /\ [][/\ PrefixOf(validator.errors, validator'.errors)
        /\ PrefixOf(validator.warnings, validator'.warnings)]_vars

\* A run over an invalid file and then a file with warnings only: both were
\* validated, the one error made the exit code 1.
C28_Witness ==
  /\ validator.exitCode = 1
  /\ Len(validator.files) = 2
  /\ validator.files[1].json = "invalid"
  /\ Len(validator.errors) = 1
  /\ About(validator.warnings, 2) # {}


\* The server processes started by the manager that are alive.
AliveServers == {p \in Pids : manager.procs[p] = "alive"}

\* C29: after any sequence of start, stop and restart commands, in daemon or
\* interactive mode, at most one server process started by the manager is
\* alive.
C29_AtMostOneServer == Cardinality(AliveServers) <= 1

\* C30: right after a stop, from the command line or from the SIGINT handler
\* of an interactive manager, no server the manager started is left alive,
\* the server of the interactive manager has been sent SIGTERM, no PID file
\* exists and isRunning() is false.
C30_StopTerminates ==
  manager.last.op \in {"stop", "sigint"} =>
    /\ AliveServers = {}
    /\ manager.last.op = "sigint" => manager.last.pid \in manager.signalled
    /\ manager.pidFile = 0
    /\ ~isRunning(manager)

====
